---------------------------- MODULE Spec2Model ----------------------------
(***************************************************************************)
(* AutoSecScan: the probe orchestrator (RunSecurityScan), the risk cascade *)
(* (CalculateRiskLevel), the header analyzer (ScanHeaders), the TLS        *)
(* analyzer (ScanTLS) and the injection analyzers (ScanSQLi, ScanXSS).     *)
(*                                                                         *)
(* The specifications share the variables:                                 *)
(*   Spec         one run of RunSecurityScan with its worker goroutines    *)
(*   SpecAll      Spec with all five categories on and no probe failing    *)
(*   FairSpec     Spec on a host whose PATH can change, with the fairness  *)
(*                that Go's scheduler and timer give                       *)
(*   SpecHost     Spec on such a host with no probe failing                *)
(*   SpecNmap     Spec with the port probe enabled                         *)
(*   SpecRisk     CalculateRiskLevel applied to bounded ScanResults        *)
(*   SpecHeaders  ScanHeaders applied to bounded server responses          *)
(*   SpecWeak     isWeakHeader applied to Content-Security-Policy values   *)
(*   SpecTLS      ScanTLS applied to bounded connection states             *)
(*   SpecInject   ScanSQLi and ScanXSS applied to bounded URLs and targets *)
(***************************************************************************)
EXTENDS Integers, Sequences, FiniteSets, TLC

VARIABLES
    options,        \* ScanOptions: the five skip flags
    nmapOnHost,     \* host state: exec.LookPath("nmap") succeeds
    faults,         \* environment: whether an analyzer can fail in this run
    target,         \* what the target makes each analyzer return on success
    opc,            \* RunSecurityScan's position
    upc,            \* each worker goroutine's position
    ret,            \* each worker's (output, err) once its analyzer returned
    errsRead,       \* each worker's read of result.Errors inside append
    pct,            \* each worker's percent, computed in updateProgress
    mu,             \* sync.Mutex mu: "free" or the worker holding it
    result,         \* the shared *models.ScanResult
    totalScans,     \* html.go:743
    completedScans, \* html.go:744
    wg,             \* sync.WaitGroup counter
    done,           \* channel done is closed
    ctxDone,        \* ctx.Done() is closed: the deadline has expired, or
                    \* (at the return) cancel was called
    branch,         \* the select case taken: "none", "done" or "timeout"
    oErrs,          \* the orchestrator's read of result.Errors at line 912
    risk,           \* the counts CalculateRiskLevel took from its read of result
    nEndTime,       \* number of writes of result.EndTime
    nRiskLevel,     \* number of writes of result.RiskLevel
    returned,       \* RunSecurityScan's return values, NULL before it returns
    hist,           \* history: what had happened when the deadline expired
                    \* and when the select decided
    nLock,          \* history: each worker's number of mu.Lock() calls
    nChecks,        \* history: number of calls of scanner.IsNmapInstalled()
    nmap,           \* options.Timeout, and the timer and process of ScanNmap
    fpc,            \* pure-function specifications: "in" or "out"
    input,          \* pure-function specifications: the argument
    output          \* pure-function specifications: the value returned

vars == <<options, nmapOnHost, faults, target, opc, upc, ret, errsRead, pct, mu,
          result, totalScans, completedScans, wg, done, ctxDone, branch,
          oErrs, risk, nEndTime, nRiskLevel, returned, hist, nLock, nChecks,
          nmap, fpc, input, output>>

scanVars == <<options, nmapOnHost, faults, target, opc, upc, ret, errsRead, pct, mu,
              result, totalScans, completedScans, wg, done, ctxDone, branch,
              oErrs, risk, nEndTime, nRiskLevel, returned, hist, nLock, nChecks,
              nmap>>

fnVars == <<fpc, input, output>>

\* A nil pointer, a nil slice, a nil error; Ptr(x) is a non-nil one.
NULL == <<>>
Ptr(x) == <<x>>
Deref(p) == p[1]

(***************************************************************************)
(* Strings.  Go strings are TLA+ strings; the functions of package strings *)
(* that the analyzers call are computed character by character.            *)
(***************************************************************************)
UpperChars == "ABCDEFGHIJKLMNOPQRSTUVWXYZ"
LowerChars == "abcdefghijklmnopqrstuvwxyz"
DigitChars == "0123456789"

Char(s, i) == SubSeq(s, i, i)

\* The characters of s.
CharsOf(s) == {Char(s, i) : i \in 1..Len(s)}

\* Position of the one-character string c in alphabet, 0 when absent.
IndexIn(c, alphabet) ==
    IF \E i \in 1..Len(alphabet) : Char(alphabet, i) = c
    THEN CHOOSE i \in 1..Len(alphabet) : Char(alphabet, i) = c
    ELSE 0

\* The characters a string of the model can hold are U+0001 to U+00FF and,
\* beyond, those with a low byte of 0x80 or more (U+0180 to U+01FF, U+0280
\* to U+02FF, ...); NUL and the grave accent stay out.  The ASCII ones are
\* the control characters (written below as the characters themselves,
\* after the escapes), the tab, and the printable ones: bytes 32..95 and
\* 97..126.
ControlChars == "\n\f\r"
AsciiLow == " !\"#$%&'()*+,-./0123456789:;<=>?@ABCDEFGHIJKLMNOPQRSTUVWXYZ[\\]^_"
AsciiHigh == "abcdefghijklmnopqrstuvwxyz{|}~"

OneByteSet == CharsOf(ControlChars \o "\t" \o AsciiLow \o AsciiHigh)

\* The characters that UTF-8 encodes in two bytes, U+0080 to U+07FF; every
\* other character of a string that is not ASCII takes three.
TwoByteChars ==
    " ¡¢£¤¥¦§¨©ª«¬­®¯"
    \o "°±²³´µ¶·¸¹º»¼½¾¿ÀÁÂÃÄÅÆÇÈÉÊËÌÍÎÏÐÑÒÓÔÕÖ×ØÙÚÛÜÝÞß"
    \o "àáâãäåæçèéêëìíîïðñòóôõö÷øùúûüýþÿƀƁƂƃƄƅƆƇƈƉƊƋƌƍƎƏ"
    \o "ƐƑƒƓƔƕƖƗƘƙƚƛƜƝƞƟƠơƢƣƤƥƦƧƨƩƪƫƬƭƮƯưƱƲƳƴƵƶƷƸƹƺƻƼƽƾƿ"
    \o "ǀǁǂǃǄǅǆǇǈǉǊǋǌǍǎǏǐǑǒǓǔǕǖǗǘǙǚǛǜǝǞǟǠǡǢǣǤǥǦǧǨǩǪǫǬǭǮǯ"
    \o "ǰǱǲǳǴǵǶǷǸǹǺǻǼǽǾǿʀʁʂʃʄʅʆʇʈʉʊʋʌʍʎʏʐʑʒʓʔʕʖʗʘʙʚʛʜʝʞʟ"
    \o "ʠʡʢʣʤʥʦʧʨʩʪʫʬʭʮʯʰʱʲʳʴʵʶʷʸʹʺʻʼʽʾʿˀˁ˂˃˄˅ˆˇˈˉˊˋˌˍˎˏ"
    \o "ːˑ˒˓˔˕˖˗˘˙˚˛˜˝˞˟ˠˡˢˣˤ˥˦˧˨˩˪˫ˬ˭ˮ˯˰˱˲˳˴˵˶˷˸˹˺˻˼˽˾˿"
    \o "΀΁΂΃΄΅Ά·ΈΉΊ΋Ό΍ΎΏΐΑΒΓΔΕΖΗΘΙΚΛΜΝΞΟΠΡ΢ΣΤΥΦΧΨΩΪΫάέήί"
    \o "ΰαβγδεζηθικλμνξοπρςστυφχψωϊϋόύώϏϐϑϒϓϔϕϖϗϘϙϚϛϜϝϞϟ"
    \o "ϠϡϢϣϤϥϦϧϨϩϪϫϬϭϮϯϰϱϲϳϴϵ϶ϷϸϹϺϻϼϽϾϿҀҁ҂҃҄҅҆҇҈҉ҊҋҌҍҎҏ"
    \o "ҐґҒғҔҕҖҗҘҙҚқҜҝҞҟҠҡҢңҤҥҦҧҨҩҪҫҬҭҮүҰұҲҳҴҵҶҷҸҹҺһҼҽҾҿ"
    \o "ӀӁӂӃӄӅӆӇӈӉӊӋӌӍӎӏӐӑӒӓӔӕӖӗӘәӚӛӜӝӞӟӠӡӢӣӤӥӦӧӨөӪӫӬӭӮӯ"
    \o "ӰӱӲӳӴӵӶӷӸӹӺӻӼӽӾӿրցւփքօֆևֈ։֊֋֌֍֎֏֐֑֖֛֚֒֓֔֕֗֘֙֜֝֞֟"
    \o "ְֱֲֳִֵֶַָֹֺֻּֽ֢֣֤֥֦֧֪֭֮֠֡֨֩֫֬֯־ֿ׀ׁׂ׃ׅׄ׆ׇ׈׉׊׋׌׍׎׏"
    \o "אבגדהוזחטיךכלםמןנסעףפץצקרשת׫׬׭׮ׯװױײ׳״׵׶׷׸׹׺׻׼׽׾׿"
    \o "ڀځڂڃڄڅچڇڈډڊڋڌڍڎڏڐڑڒړڔڕږڗژڙښڛڜڝڞڟڠڡڢڣڤڥڦڧڨکڪګڬڭڮگ"
    \o "ڰڱڲڳڴڵڶڷڸڹںڻڼڽھڿۀہۂۃۄۅۆۇۈۉۊۋیۍێۏېۑےۓ۔ەۖۗۘۙۚۛۜ۝۞۟"
    \o "ۣ۠ۡۢۤۥۦۧۨ۩۪ۭ۫۬ۮۯ۰۱۲۳۴۵۶۷۸۹ۺۻۼ۽۾ۿހށނރބޅކއވމފދތލގޏ"
    \o "ސޑޒޓޔޕޖޗޘޙޚޛޜޝޞޟޠޡޢޣޤޥަާިީުޫެޭޮޯްޱ޲޳޴޵޶޷޸޹޺޻޼޽޾޿"
    \o "߀߁߂߃߄߅߆߇߈߉ߊߋߌߍߎߏߐߑߒߓߔߕߖߗߘߙߚߛߜߝߞߟߠߡߢߣߤߥߦߧߨߩߪ߫߬߭߮߯"
    \o "߲߰߱߳ߴߵ߶߷߸߹ߺ߻߼߽߾߿"

TwoByteSet == CharsOf(TwoByteChars)

\* len(s) of Go: the number of bytes of the UTF-8 encoding of s.
ByteLen(s) ==
    Len(s) + Cardinality({i \in 1..Len(s) : Char(s, i) \notin OneByteSet})
           + Cardinality({i \in 1..Len(s) : Char(s, i) \notin OneByteSet \cup TwoByteSet})

\* The upper-case letters beyond ASCII whose lower-case form a string can
\* hold, and at the same positions what unicode.ToLower maps them to
\* (U+0130 to i).
UpperOther ==
    "ÀÁÂÃÄÅÆÇÈÉÊËÌÍÎÏÐÑÒÓÔÕÖØÙÚÛÜÝÞƂƄƇƋƎƑƘƠƢƤƦƧƩƬƮƯƱƲ"
    \o "ƳƵƷƸƼǄǅǇǈǊǋǍǏǑǓǕǗǙǛǞǠǢǤǦǨǪǬǮǱǲǴǶǷǸǺǼǾΆΈΉΊΌΎΏΑΒΓΔ"
    \o "ΕΖΗΘΙΚΛΜΝΞΟΠΡΣΤΥΦΧΨΩΪΫϏϘϚϜϞϠϢϤϦϨϪϬϮϴϷϹϺҀҊҌҎҐҒҔҖҘ"
    \o "ҚҜҞҠҢҤҦҨҪҬҮҰҲҴҶҸҺҼҾӀӁӃӅӇӉӋӍӐӒӔӖӘӚӜӞӠӢӤӦӨӪӬӮӰӲӴӶӸ"
    \o "ӺӼӾᎰᎱᎲᎳᎴᎵᎶᎷᎸᎹᎺᎻᎼᎽᎾᎿᏀᏁᏂᏃᏄᏅᏆᏇᏈᏉᏊᏋᏌᏍᏎᏏᏐᏑᏒᏓᏔᏕᏖᏗᏘᏙᏚᏛᏜ"
    \o "ᏝᏞᏟᏠᏡᏢᏣᏤᏥᏦᏧᏨᏩᏪᏫᏬᏭᏮᏯᏰᏱᏲᏳᏴᏵᲐᲑᲒᲓᲔᲕᲖᲗᲘᲙᲚᲛᲜᲝᲞᲟᲠᲡᲢᲣᲤᲥᲦ"
    \o "ᲧᲨᲩᲪᲫᲬᲭᲮᲯᲰᲱᲲᲳᲴᲵᲶᲷᲸᲹᲺᲽᲾᲿẀẂẄẆẈẊẌẎẐẒẔẞẠẢẤẦẨẪẬẮẰẲẴẶẸ"
    \o "ẺẼẾỀỂỄỆỈỊỌỎỐỒỔỖỘỚỜỞỠỢỤỦỨỪỬỮỰỲỴỶỸỺỼỾᾈᾉᾊᾋᾌᾍᾎᾏᾘᾙᾚᾛᾜ"
    \o "ᾝᾞᾟᾨᾩᾪᾫᾬᾭᾮᾯᾸᾹᾼῌῘῙῨῩῬῼↃⒶⒷⒸⒹⒺⒻⒼⒽⒾⒿⓀⓁⓂⓃⓄⓅⓆⓇⓈⓉⓊⓋⓌⓍⓎⓏ"
    \o "ⲀⲂⲄⲆⲈⲊⲌⲎⲐⲒⲔⲖⲘⲚⲜⲞⲠⲢⲤⲦⲨⲪⲬⲮⲰⲲⲴⲶⲸⲺⲼⲾⳀⳂⳄⳆⳈⳊⳌⳎⳐⳒⳔⳖⳘⳚⳜⳞ"
    \o "ⳠⳢⳫⳭⳲꚀꚂꚄꚆꚈꚊꚌꚎꚐꚒꚔꚖꚘꚚꞀꞂꞄꞆꞋꞐꞒꞖꞘꞚꞜꞞꞠꞢꞤꞦꞨꞰꞱꞲꞴꞶꞸꞺꞼꞾꟀꟂꟄ"
    \o "ꟅꟆꟇꟉꟐꟖꟘꟵ"

LowerOther ==
    "àáâãäåæçèéêëìíîïðñòóôõöøùúûüýþƃƅƈƌǝƒƙơƣƥʀƨʃƭʈưʊʋ"
    \o "ƴƶʒƹƽǆǆǉǉǌǌǎǐǒǔǖǘǚǜǟǡǣǥǧǩǫǭǯǳǳǵƕƿǹǻǽǿάέήίόύώαβγδ"
    \o "εζηθικλμνξοπρστυφχψωϊϋϗϙϛϝϟϡϣϥϧϩϫϭϯθϸϲϻҁҋҍҏґғҕҗҙ"
    \o "қҝҟҡңҥҧҩҫҭүұҳҵҷҹһҽҿӏӂӄӆӈӊӌӎӑӓӕӗәӛӝӟӡӣӥӧөӫӭӯӱӳӵӷӹ"
    \o "ӻӽӿꮀꮁꮂꮃꮄꮅꮆꮇꮈꮉꮊꮋꮌꮍꮎꮏꮐꮑꮒꮓꮔꮕꮖꮗꮘꮙꮚꮛꮜꮝꮞꮟꮠꮡꮢꮣꮤꮥꮦꮧꮨꮩꮪꮫꮬ"
    \o "ꮭꮮꮯꮰꮱꮲꮳꮴꮵꮶꮷꮸꮹꮺꮻꮼꮽꮾꮿᏸᏹᏺᏻᏼᏽაბგდევზთიკლმნოპჟრსტუფქღ"
    \o "ყშჩცძწჭხჯჰჱჲჳჴჵჶჷჸჹჺჽჾჿẁẃẅẇẉẋẍẏẑẓẕßạảấầẩẫậắằẳẵặẹ"
    \o "ẻẽếềểễệỉịọỏốồổỗộớờởỡợụủứừửữựỳỵỷỹỻỽỿᾀᾁᾂᾃᾄᾅᾆᾇᾐᾑᾒᾓᾔ"
    \o "ᾕᾖᾗᾠᾡᾢᾣᾤᾥᾦᾧᾰᾱᾳῃῐῑῠῡῥῳↄⓐⓑⓒⓓⓔⓕⓖⓗⓘⓙⓚⓛⓜⓝⓞⓟⓠⓡⓢⓣⓤⓥⓦⓧⓨⓩ"
    \o "ⲁⲃⲅⲇⲉⲋⲍⲏⲑⲓⲕⲗⲙⲛⲝⲟⲡⲣⲥⲧⲩⲫⲭⲯⲱⲳⲵⲷⲹⲻⲽⲿⳁⳃⳅⳇⳉⳋⳍⳏⳑⳓⳕⳗⳙⳛⳝⳟ"
    \o "ⳡⳣⳬⳮⳳꚁꚃꚅꚇꚉꚋꚍꚏꚑꚓꚕꚗꚙꚛꞁꞃꞅꞇꞌꞑꞓꞗꞙꞛꞝꞟꞡꞣꞥꞧꞩʞʇʝꞵꞷꞹꞻꞽꞿꟁꟃꞔ"
    \o "ʂᶎꟈꟊꟑꟗꟙꟶ"

\* The upper-case letters that unicode.ToLower maps to a character no
\* string here can hold (U+0181 to U+0253, U+10A0 to U+2D00, U+13A0 to
\* U+AB70 and the like).
UpperUnwritable ==
    "ƁƆƉƊƏƐƓƔƖƗƜƝƟϽϾϿႠႡႢႣႤႥႦႧႨႩႪႫႬႭႮႯႰႱႲႳႴႵႶႷႸႹႺႻႼႽႾႿ"
    \o "ჀჁჂჃჄჅჇჍᎠᎡᎢᎣᎤᎥᎦᎧᎨᎩᎪᎫᎬᎭᎮᎯᾺΆῈΈῊΉῚΊῪΎῸΌῺΏꞍꞪꞫꞬꞭꞮꞳ"

UpperSet == CharsOf(UpperChars \o UpperOther \o UpperUnwritable)

\* unicode.ToLower on the upper-case letters whose lower-case form can be
\* written.  The letters of UpperUnwritable are outside its domain: what
\* they are mapped to is not a value of the model, and no input holds them.
LowerOf ==
    [c \in CharsOf(UpperChars \o UpperOther) |->
        Char(LowerChars \o LowerOther, IndexIn(c, UpperChars \o UpperOther))]

\* unicode.ToLower: a character that is no upper-case letter is left as it
\* is.
LowerChar(c) == IF c \in UpperSet THEN LowerOf[c] ELSE c

\* c - ('a' - 'A') for an ASCII letter in lower case.
UpperChar(c) ==
    IF IndexIn(c, LowerChars) > 0 THEN Char(UpperChars, IndexIn(c, LowerChars)) ELSE c

RECURSIVE LowerFrom(_, _)
LowerFrom(s, i) ==
    IF i > Len(s) THEN "" ELSE LowerChar(Char(s, i)) \o LowerFrom(s, i + 1)

\* strings.ToLower: every character through unicode.ToLower.
ToLower(s) == LowerFrom(s, 1)

\* strings.Contains
Contains(s, sub) ==
    \E i \in 1..(Len(s) - Len(sub) + 1) : SubSeq(s, i, i + Len(sub) - 1) = sub

\* strings.HasPrefix
HasPrefix(s, p) == Len(s) >= Len(p) /\ SubSeq(s, 1, Len(p)) = p

RECURSIVE JoinFrom(_, _, _)
JoinFrom(values, sep, i) ==
    IF i > Len(values) THEN ""
    ELSE IF i = Len(values) THEN values[i]
    ELSE values[i] \o sep \o JoinFrom(values, sep, i + 1)

\* strings.Join
Join(values, sep) == JoinFrom(values, sep, 1)

RECURSIVE SplitFrom(_, _, _, _)
SplitFrom(s, sep, i, cur) ==
    IF i > Len(s) THEN <<cur>>
    ELSE IF Char(s, i) = sep THEN <<cur>> \o SplitFrom(s, sep, i + 1, "")
    ELSE SplitFrom(s, sep, i + 1, cur \o Char(s, i))

\* strings.Split with a one-character separator
Split(s, sep) == SplitFrom(s, sep, 1, "")

\* unicode.IsSpace, and isSpace of fmt/scan.go, on the characters a string
\* of the model can hold: space, \t, \n, \f, \r, and, written as the
\* characters themselves after the \r, \v (U+000B), U+0085, U+00A0 and
\* U+1680.  The other white space of Unicode (U+2000 to U+200A, U+2028,
\* U+2029, U+202F, U+205F, U+3000) cannot be written in a string.
SpaceChars == " \t\n\f\r  "

IsSpace(c) == IndexIn(c, SpaceChars) > 0

RECURSIVE TrimLeft(_)
TrimLeft(s) ==
    IF Len(s) > 0 /\ IsSpace(Char(s, 1)) THEN TrimLeft(SubSeq(s, 2, Len(s))) ELSE s

RECURSIVE TrimRight(_)
TrimRight(s) ==
    IF Len(s) > 0 /\ IsSpace(Char(s, Len(s))) THEN TrimRight(SubSeq(s, 1, Len(s) - 1)) ELSE s

\* strings.TrimSpace
TrimSpace(s) == TrimRight(TrimLeft(s))

\* (*ss).SkipSpace of fmt/scan.go as Sscanf runs it (nlIsSpace false): the
\* position of the first character from i on that is not white space,
\* Len(s) + 1 at the end of the input, 0 for the "unexpected newline" error.
\* A \r before a \n is skipped and the \n then is the error.
RECURSIVE SkipSpace(_, _)
SkipSpace(s, i) ==
    IF i > Len(s) THEN i
    ELSE IF Char(s, i) = "\n" THEN 0
    ELSE IF IsSpace(Char(s, i)) THEN SkipSpace(s, i + 1)
    ELSE i

\* The digit set of the verb %d (getBase, fmt/scan.go).
NumberChars == DigitChars \o "_"

\* (*ss).scanNumber: the position after the last character from i on that
\* is in the digit set.
RECURSIVE TokenEnd(_, _)
TokenEnd(s, i) ==
    IF i <= Len(s) /\ IndexIn(Char(s, i), NumberChars) > 0 THEN TokenEnd(s, i + 1) ELSE i

RECURSIVE StripZeros(_)
StripZeros(d) ==
    IF Len(d) > 1 /\ Char(d, 1) = "0" THEN StripZeros(SubSeq(d, 2, Len(d))) ELSE d

\* a > b for two digit strings of the same length.
RECURSIVE GreaterFrom(_, _, _)
GreaterFrom(a, b, i) ==
    IF i > Len(a) THEN FALSE
    ELSE IF Char(a, i) = Char(b, i) THEN GreaterFrom(a, b, i + 1)
    ELSE IndexIn(Char(a, i), DigitChars) > IndexIn(Char(b, i), DigitChars)

\* The value of the digits of s from i on.
RECURSIVE DigitsFrom(_, _, _)
DigitsFrom(s, i, acc) ==
    IF i > Len(s) THEN acc
    ELSE DigitsFrom(s, i + 1, 10 * acc + (IndexIn(Char(s, i), DigitChars) - 1))

\* strconv.ParseInt(tok, 10, 64) on a token of an optional sign and
\* characters of the digit set: a syntax error for an underscore (base 10) or
\* no digit, a range error beyond 64 bits.  A value of 64 bits is an
\* integer of the model when its magnitude is at most 2^31 - 1 and its
\* decimal numeral otherwise (a string: a "-" for a negative value, then the
\* digits without leading zeros), so that no value is changed.
ParseInt(tok) ==
    LET neg   == Len(tok) > 0 /\ Char(tok, 1) = "-"
        sgn   == Len(tok) > 0 /\ Char(tok, 1) \in {"-", "+"}
        body  == IF sgn THEN SubSeq(tok, 2, Len(tok)) ELSE tok
        d     == StripZeros(body)
        limit == IF neg THEN "9223372036854775808" ELSE "9223372036854775807"
        big   == Len(d) > 10 \/ (Len(d) = 10 /\ GreaterFrom(d, "2147483647", 1))
        m     == DigitsFrom(d, 1, 0)
    IN  IF body = "" \/ Contains(body, "_") THEN [value |-> 0, ok |-> FALSE]
        ELSE IF Len(d) > 19 \/ (Len(d) = 19 /\ GreaterFrom(d, limit, 1))
        THEN [value |-> 0, ok |-> FALSE]
        ELSE IF big THEN [value |-> (IF neg THEN "-" ELSE "") \o d, ok |-> TRUE]
        ELSE [value |-> IF neg THEN 0 - m ELSE m, ok |-> TRUE]

\* fmt.Sscanf(part, "max-age=%d", &maxAge): the literal prefix, then for %d
\* white space is skipped, a sign is accepted, at least one character of the
\* digit set must follow, and the token goes through ParseInt; what follows
\* the token is not read.  maxAge keeps its zero value when the scan fails.
SscanfMaxAge(part) ==
    IF ~HasPrefix(part, "max-age=") THEN 0
    ELSE LET i == SkipSpace(part, 9)
         IN  IF i = 0 \/ i > Len(part) THEN 0
             ELSE LET j == IF Char(part, i) \in {"-", "+"} THEN i + 1 ELSE i
                      k == TokenEnd(part, j)
                      r == ParseInt(SubSeq(part, i, k - 1))
                  IN  IF k = j \/ ~r.ok THEN 0 ELSE r.value

\* The bytes of a header name (the tchar of RFC 7230).  The grave accent is
\* one as well and cannot be written here.
TokenSet == CharsOf(UpperChars \o LowerChars \o DigitChars \o "!#$%&'*+-.^_|~")

validHeaderFieldByte(c) == c \in TokenSet

\* The bytes of a header value: every byte but the control characters, the
\* tab being allowed.
validHeaderValueByte(c) == c \notin CharsOf(ControlChars)

\* textproto.CanonicalMIMEHeaderKey: the first letter and every letter
\* after a hyphen in upper case, the others in lower case; a name with a
\* byte that is no token byte is returned as it is.
RECURSIVE CanonicalFrom(_, _, _)
CanonicalFrom(s, i, upper) ==
    IF i > Len(s) THEN ""
    ELSE LET c == Char(s, i)
         IN  (IF upper THEN UpperChar(c) ELSE LowerChar(c))
                 \o CanonicalFrom(s, i + 1, c = "-")

CanonicalMIMEHeaderKey(s) ==
    IF \A i \in 1..Len(s) : validHeaderFieldByte(Char(s, i))
    THEN CanonicalFrom(s, 1, TRUE)
    ELSE s

(***************************************************************************)
(* Header analyzer (internal/scanner/headers.go).                          *)
(***************************************************************************)
securityHeaders == <<
    [Name |-> "Strict-Transport-Security", Description |-> "Enforces secure HTTPS connections", Severity |-> "high"],
    [Name |-> "Content-Security-Policy", Description |-> "Prevents XSS and data injection attacks", Severity |-> "high"],
    [Name |-> "X-Frame-Options", Description |-> "Prevents clickjacking attacks", Severity |-> "medium"],
    [Name |-> "X-Content-Type-Options", Description |-> "Prevents MIME-type sniffing", Severity |-> "medium"],
    [Name |-> "Referrer-Policy", Description |-> "Controls referrer information", Severity |-> "low"],
    [Name |-> "Permissions-Policy", Description |-> "Controls browser features and APIs", Severity |-> "medium"],
    [Name |-> "X-XSS-Protection", Description |-> "Legacy XSS filter (deprecated but still useful)", Severity |-> "low"] >>

HeaderNames == {securityHeaders[i].Name : i \in 1..Len(securityHeaders)}

RECURSIVE MaxAgeFrom(_, _)
MaxAgeFrom(parts, i) ==
    IF i > Len(parts) THEN 0
    ELSE IF HasPrefix(TrimSpace(parts[i]), "max-age=") THEN SscanfMaxAge(TrimSpace(parts[i]))
    ELSE MaxAgeFrom(parts, i + 1)

extractMaxAge(value) == MaxAgeFrom(Split(value, ";"), 1)

\* a < b for a 64-bit value a as ParseInt gives it and an integer b of the
\* model: a numeral is beyond every integer of the model, on the side of its
\* sign.
IsNumeral(a) == SubSeq(ToString(a), 1, 1) = "\""

LessThan(a, b) == IF IsNumeral(a) THEN Char(a, 1) = "-" ELSE a < b

isWeakHeader(name, value) ==
    LET lowerValue == ToLower(value)
    IN  CASE name = "Strict-Transport-Security" ->
                 \/ ~Contains(lowerValue, "max-age=")
                 \/ LessThan(extractMaxAge(lowerValue), 15552000)
          [] name = "Content-Security-Policy" ->
                 \/ Contains(lowerValue, "unsafe-inline")
                 \/ Contains(lowerValue, "unsafe-eval")
                 \/ (Contains(lowerValue, "*") /\ ~Contains(lowerValue, "'*'"))
          [] name = "X-Frame-Options" -> Contains(lowerValue, "allow")
          [] name = "X-XSS-Protection" -> Contains(lowerValue, "0")
          [] OTHER -> FALSE

\* The header block of a response is a list of lines (wire), each a name
\* and what follows its colon; a name does not begin with a blank, such a
\* line being the continuation of the one before.  net/http reads the
\* block with textproto's ReadMIMEHeader, which refuses it ("malformed MIME
\* header line") when a name has a byte that is neither a token byte nor a
\* space, or a value a byte that is not allowed.
WellFormed(line) ==
    /\ \A i \in 1..Len(line.name) :
           validHeaderFieldByte(Char(line.name, i)) \/ Char(line.name, i) = " "
    /\ \A i \in 1..Len(line.value) : validHeaderValueByte(Char(line.value, i))

Readable(wire) == \A i \in 1..Len(wire) : WellFormed(wire[i])

\* A value without the spaces and tabs around it.
RECURSIVE TrimBlank(_)
TrimBlank(s) ==
    IF Len(s) > 0 /\ Char(s, 1) \in {" ", "\t"} THEN TrimBlank(SubSeq(s, 2, Len(s)))
    ELSE IF Len(s) > 0 /\ Char(s, Len(s)) \in {" ", "\t"}
    THEN TrimBlank(SubSeq(s, 1, Len(s) - 1))
    ELSE s

\* The values of wire[i..] stored under key, in the order of the lines.
RECURSIVE ValuesFrom(_, _, _)
ValuesFrom(wire, i, key) ==
    IF i > Len(wire) THEN <<>>
    ELSE (IF CanonicalMIMEHeaderKey(wire[i].name) = key
          THEN <<TrimBlank(wire[i].value)>> ELSE <<>>)
         \o ValuesFrom(wire, i + 1, key)

\* resp.Header as net/http delivers it for a block that it can read: each
\* line under the canonical form of its name (under the name as it is when
\* the name has a space), a line with an empty name skipped.
RespHeader(wire) ==
    LET keys == {CanonicalMIMEHeaderKey(wire[i].name) : i \in 1..Len(wire)} \ {""}
    IN  [k \in keys |-> ValuesFrom(wire, 1, k)]

\* The loop with the second test not under an else: a header that is not in
\* the response is recorded as missing and then classified as well.
RECURSIVE AnalyzeFromFallsThrough(_, _, _)
AnalyzeFromFallsThrough(header, i, scan) ==
    IF i > Len(securityHeaders) THEN scan
    ELSE LET headerDef == securityHeaders[i]
             exists    == headerDef.Name \in DOMAIN header
             headerValue == IF exists THEN Join(header[headerDef.Name], "; ") ELSE ""
             scanM == IF exists THEN scan
                      ELSE [scan EXCEPT !.MissingHeaders = Append(@,
                              [Name |-> headerDef.Name, Value |-> "", Status |-> "missing",
                               Severity |-> headerDef.Severity,
                               Description |-> headerDef.Description])]
         IN  IF isWeakHeader(headerDef.Name, headerValue)
             THEN AnalyzeFromFallsThrough(header, i + 1,
                    [scanM EXCEPT !.WeakHeaders = Append(@,
                        [Name |-> headerDef.Name, Value |-> headerValue, Status |-> "weak",
                         Severity |-> headerDef.Severity,
                         Description |-> headerDef.Description \o " (weak configuration)"])])
             ELSE AnalyzeFromFallsThrough(header, i + 1,
                    [scanM EXCEPT !.PresentHeaders = Append(@,
                        [Name |-> headerDef.Name, Value |-> headerValue, Status |-> "present",
                         Severity |-> "info",
                         Description |-> headerDef.Description]),
                                 !.SecurityScore = @ + 15])

\* One pass of the loop at headers.go:97-132 over securityHeaders[i..].
RECURSIVE AnalyzeFrom(_, _, _)
AnalyzeFrom(header, i, scan) ==
    IF i > Len(securityHeaders) THEN scan
    ELSE LET headerDef == securityHeaders[i]
             exists    == headerDef.Name \in DOMAIN header
             headerValue == Join(header[headerDef.Name], "; ")
         IN  IF ~exists
             THEN AnalyzeFrom(header, i + 1,
                    [scan EXCEPT !.MissingHeaders = Append(@,
                        [Name |-> headerDef.Name, Value |-> "", Status |-> "missing",
                         Severity |-> headerDef.Severity,
                         Description |-> headerDef.Description])])
             ELSE IF isWeakHeader(headerDef.Name, headerValue)
             THEN AnalyzeFrom(header, i + 1,
                    [scan EXCEPT !.WeakHeaders = Append(@,
                        [Name |-> headerDef.Name, Value |-> headerValue, Status |-> "weak",
                         Severity |-> headerDef.Severity,
                         Description |-> headerDef.Description \o " (weak configuration)"])])
             ELSE AnalyzeFrom(header, i + 1,
                    [scan EXCEPT !.PresentHeaders = Append(@,
                        [Name |-> headerDef.Name, Value |-> headerValue, Status |-> "present",
                         Severity |-> "info",
                         Description |-> headerDef.Description]),
                                 !.SecurityScore = @ + 15])

\* headers.go:134-141: cap at the maximum, then convert to a percentage.
FinalScore(score) ==
    LET maxScore == Len(securityHeaders) * 15
        capped   == IF score > maxScore THEN maxScore ELSE score
    IN  (capped * 100) \div maxScore

\* ScanHeaders on the response the HEAD/GET probe delivered.
AnalyzeHeaders(header) ==
    LET scan0 == [Headers |-> [k \in DOMAIN header |-> Join(header[k], "; ")],
                  MissingHeaders |-> <<>>, WeakHeaders |-> <<>>,
                  PresentHeaders |-> <<>>, SecurityScore |-> 0]
        scan1 == AnalyzeFrom(header, 1, scan0)
    IN  [scan1 EXCEPT !.SecurityScore = FinalScore(@)]

\* ScanHeaders: HEAD first; GET when HEAD failed or answered >= 400; an error
\* when GET fails too.  probe is [headOK, getOK, wire]; a request whose
\* response has a header block that cannot be read fails.
ScanHeaders(probe) ==
    LET head == probe.headOK /\ Readable(probe.wire)
        get  == probe.getOK /\ Readable(probe.wire)
    IN  IF ~head /\ ~get
    THEN [scan |-> NULL, err |-> Ptr("failed to connect")]
    ELSE [scan |-> Ptr(AnalyzeHeaders(RespHeader(probe.wire))), err |-> NULL]


(***************************************************************************)
(* Risk cascade (orchestrator, html.go:923-973).                           *)
(***************************************************************************)
\* range over a slice field: a nil slice has no elements.
Elems(slice) == IF slice = NULL THEN <<>> ELSE Deref(slice)

RECURSIVE CountSeverity(_, _, _)
CountSeverity(vulns, i, severity) ==
    IF i > Len(vulns) THEN 0
    ELSE (IF vulns[i].Severity = severity THEN 1 ELSE 0) + CountSeverity(vulns, i + 1, severity)

NoCounts == [criticalCount |-> 0, highCount |-> 0, mediumCount |-> 0]

\* html.go:930-939 and 941-950: one loop over a vulnerability list.
CountVulns(c, slice) ==
    [criticalCount |-> c.criticalCount + CountSeverity(Elems(slice), 1, "critical"),
     highCount     |-> c.highCount + CountSeverity(Elems(slice), 1, "high"),
     mediumCount   |-> c.mediumCount + CountSeverity(Elems(slice), 1, "medium")]

\* The TLS check counting an insecure TLS result as a medium finding.
CountTLSMedium(c, tls) ==
    IF tls # NULL /\ ~Deref(tls).IsSecure
    THEN [c EXCEPT !.mediumCount = @ + 1] ELSE c

\* html.go:952-955
CountTLS(c, tls) ==
    IF tls # NULL /\ ~Deref(tls).IsSecure
    THEN [c EXCEPT !.highCount = @ + 1] ELSE c

\* html.go:957-960
CountHeaders(c, hdr) ==
    IF hdr # NULL /\ Deref(hdr).SecurityScore < 50
    THEN [c EXCEPT !.mediumCount = @ + 1] ELSE c

\* The cascade with its first two tests in the other order.
DetermineRiskHighFirst(c) ==
    IF c.highCount > 0 THEN "HIGH"
    ELSE IF c.criticalCount > 0 THEN "CRITICAL"
    ELSE IF c.mediumCount > 0 THEN "MEDIUM"
    ELSE "LOW"

\* html.go:962-972
DetermineRisk(c) ==
    IF c.criticalCount > 0 THEN "CRITICAL"
    ELSE IF c.highCount > 0 THEN "HIGH"
    ELSE IF c.mediumCount > 0 THEN "MEDIUM"
    ELSE "LOW"

\* ReadCounts with one more test: a recorded error counts as a high finding.
ReadCountsWithErrors(r) ==
    LET c == CountHeaders(
                 CountTLS(
                     CountVulns(CountVulns(NoCounts, r.SQLiResults), r.XSSResults),
                     r.TLSResults),
                 r.HeaderResults)
    IN  IF Len(r.Errors) > 0 THEN [c EXCEPT !.highCount = @ + 1] ELSE c

\* The counts CalculateRiskLevel takes from result (html.go:925-960).
ReadCounts(r) ==
    CountHeaders(
        CountTLS(
            CountVulns(CountVulns(NoCounts, r.SQLiResults), r.XSSResults),
            r.TLSResults),
        r.HeaderResults)

CalculateRiskLevel(r) == DetermineRisk(ReadCounts(r))

(***************************************************************************)
(* Probe orchestrator (RunSecurityScan, html.go:720-921).                  *)
(***************************************************************************)
UnitOrder == <<"Headers", "TLS", "SQLi", "XSS", "Nmap">>
Units == {UnitOrder[i] : i \in 1..Len(UnitOrder)}

\* The result field a worker assigns on success.
Field(u) ==
    CASE u = "Headers" -> "HeaderResults"
      [] u = "TLS"     -> "TLSResults"
      [] u = "SQLi"    -> "SQLiResults"
      [] u = "XSS"     -> "XSSResults"
      [] u = "Nmap"    -> "NmapResults"

\* The error value a failing analyzer returns, tagged with its analyzer.
ErrOf(u) ==
    CASE u = "Headers" -> [from |-> u, msg |-> "failed to connect"]
      [] u = "TLS"     -> [from |-> u, msg |-> "TLS connection failed"]
      [] u = "SQLi"    -> [from |-> u, msg |-> "failed to get baseline response"]
      [] u = "XSS"     -> [from |-> u, msg |-> "failed to parse URL"]
      [] u = "Nmap"    -> [from |-> u, msg |-> "nmap execution failed"]

TimeoutErr == [from |-> "RunSecurityScan", msg |-> "scan timeout exceeded"]

\* A header block with every defined header and a strong value.
SecureWire ==
    <<[name |-> "Strict-Transport-Security", value |-> "max-age=31536000; includeSubDomains"],
      [name |-> "Content-Security-Policy", value |-> "default-src 'self'"],
      [name |-> "X-Frame-Options", value |-> "DENY"],
      [name |-> "X-Content-Type-Options", value |-> "nosniff"],
      [name |-> "Referrer-Policy", value |-> "no-referrer"],
      [name |-> "Permissions-Policy", value |-> "geolocation=()"],
      [name |-> "X-XSS-Protection", value |-> "1; mode=block"]>>

\* Two targets.  An http site that sends no security header and reflects
\* injections, and an https site that sends every header with a strong value.
VulnerableTarget ==
    [Protocol |-> "http",
     HeaderScan |-> AnalyzeHeaders(RespHeader(<<>>)),
     TLSScan |-> [Protocol |-> "", CipherSuite |-> "", IsSecure |-> FALSE, Score |-> 0,
                  Vulnerabilities |-> <<"Target is not using HTTPS">>],
     SQLi |-> <<[Type |-> "sqli", Severity |-> "critical", Location |-> "id"]>>,
     XSS |-> <<[Type |-> "xss", Severity |-> "high", Location |-> "q"]>>,
     Nmap |-> [OpenPorts |-> <<80>>]]

SecureTarget ==
    [Protocol |-> "https",
     HeaderScan |-> AnalyzeHeaders(RespHeader(SecureWire)),
     TLSScan |-> [Protocol |-> "TLS 1.3", CipherSuite |-> "TLS_AES_128_GCM_SHA256",
                  IsSecure |-> TRUE, Score |-> 100, Vulnerabilities |-> <<>>],
     SQLi |-> <<>>,
     XSS |-> <<>>,
     Nmap |-> [OpenPorts |-> <<443>>]]

Targets == {VulnerableTarget, SecureTarget}

\* What analyzer u returns with a nil error.
Out(u) ==
    CASE u = "Headers" -> target.HeaderScan
      [] u = "TLS"     -> target.TLSScan
      [] u = "SQLi"    -> target.SQLi
      [] u = "XSS"     -> target.XSS
      [] u = "Nmap"    -> target.Nmap

\* Whether analyzer u can return an error: ScanTLS returns its no-op result
\* with a nil error for a target that is not https (tls.go:18-25).
CanFail(u) == faults /\ (u = "TLS" => target.Protocol = "https")

\* scanner.IsNmapInstalled()
IsNmapInstalled == nmapOnHost

\* Calls of IsNmapInstalled made by one evaluation of
\* "!options.SkipNmap && scanner.IsNmapInstalled()" (&& short-circuits).
GateCalls == IF options.SkipNmap THEN 0 ELSE 1

\* The launch conditions at html.go:772, 795, 822, 849 and 876.
Enabled(u) ==
    CASE u = "Headers" -> ~options.SkipHeaders
      [] u = "TLS"     -> ~options.SkipTLS
      [] u = "SQLi"    -> ~options.SkipSQLi
      [] u = "XSS"     -> ~options.SkipXSS
      [] u = "Nmap"    -> ~options.SkipNmap /\ IsNmapInstalled

RECURSIVE CountEnabled(_)
CountEnabled(i) ==
    IF i > Len(UnitOrder) THEN 0
    ELSE (IF Enabled(UnitOrder[i]) THEN 1 ELSE 0) + CountEnabled(i + 1)

LaunchPc(u) == "launch" \o u

NextPc(u) ==
    CASE u = "Headers" -> LaunchPc("TLS")
      [] u = "TLS"     -> LaunchPc("SQLi")
      [] u = "SQLi"    -> LaunchPc("XSS")
      [] u = "XSS"     -> LaunchPc("Nmap")
      [] u = "Nmap"    -> "select"

Launching == opc \in {"count"} \cup {LaunchPc(u) : u \in Units}

\* A goroutine panicked and the runtime has ended the process.
Crashed == opc = "crashed"

EmptyResult ==
    [NmapResults |-> NULL, HeaderResults |-> NULL, TLSResults |-> NULL,
     SQLiResults |-> NULL, XSSResults |-> NULL, Errors |-> <<>>,
     EndTime |-> "zero", RiskLevel |-> ""]

OptionSets ==
    [SkipNmap : BOOLEAN, SkipHeaders : BOOLEAN, SkipTLS : BOOLEAN,
     SkipSQLi : BOOLEAN, SkipXSS : BOOLEAN]

\* The workers RunSecurityScan has launched.
Launched == {u \in Units : upc[u] # "idle"}

\* Worker u has run its deferred wg.Done(): at the end of its function or
\* on its way out of a panic.
Ended(u) == upc[u] \in {"fin", "panic"}

\* The launches are over and every launched worker has run its wg.Done().
AllFinished == ~Launching /\ \A u \in Launched : Ended(u)

\* Workers whose write under the lock is complete.
HasWritten(u) ==
    \/ upc[u] \in {"progress", "cs2", "callback", "fin", "panic"}
    \/ upc[u] = "cs1b" /\ ret[u] = "ok"

\* History, read by properties only.  onTime: every worker had finished when
\* the deadline expired.  When track is set, also late: the units that had
\* not finished when the deadline expired (launched or not), and written:
\* the workers whose write was complete when finalization began
\* (html.go:915).
Histories == [track : BOOLEAN, onTime : BOOLEAN, late : SUBSET Units, written : SUBSET Units]

\* Bound: options.Timeout, in nanoseconds.
MaxTimeout == 2

\* Timeout: options.Timeout.  kill: the timer of time.AfterFunc in ScanNmap,
\* "unset", "armed", "fired" or "panicked" (its function has panicked).  A
\* timer fires at some moment after it was set: nothing bounds the time a
\* goroutine takes for a step.
\* proc: how far ScanNmap and the nmap process, cmd, have come: "none" before
\* the lookup of part_003:257, "absent" or "found" after it, "ready" or
\* "unready" (cmd.Err set) once exec.Command has built cmd, then "running"
\* or "failed" (cmd.Process nil), and "done", "error" or "killed" for a
\* process that has ended.
\* stale: the host has changed since exec.Command resolved cmd.Path, so the
\* file of that path may be gone although nmap is in PATH.
NmapIdle == [Timeout |-> 0, kill |-> "unset", proc |-> "none", stale |-> FALSE]

NmapInits == {[NmapIdle EXCEPT !.Timeout = t] : t \in 0..MaxTimeout}

ScanIdle ==
    /\ opc = "count"
    /\ upc = [u \in Units |-> "idle"]
    /\ ret = [u \in Units |-> "none"]
    /\ errsRead = [u \in Units |-> NULL]
    /\ pct = [u \in Units |-> 0]
    /\ mu = "free"
    /\ result = EmptyResult
    /\ totalScans = 0
    /\ completedScans = 0
    /\ wg = 0
    /\ done = FALSE
    /\ nmap \in NmapInits
    /\ ctxDone = (nmap.Timeout <= 0)
    /\ branch = "none"
    /\ oErrs = NULL
    /\ risk = NULL
    /\ nEndTime = 0
    /\ nRiskLevel = 0
    /\ returned = NULL
    /\ hist \in {h \in Histories : /\ h.written = {}
                                   /\ h.late = (IF ctxDone /\ h.track THEN Units ELSE {})
                                   /\ ~h.onTime}
    /\ nLock = [u \in Units |-> 0]
    /\ nChecks = 0

FnIdle == fpc = "idle" /\ input = NULL /\ output = NULL

\* Bound: the number of categories that are not skipped, and so of worker
\* units one run can launch.
MaxLaunched == 2

NotSkipped ==
    {u \in Units : CASE u = "Headers" -> ~options.SkipHeaders
                      [] u = "TLS"     -> ~options.SkipTLS
                      [] u = "SQLi"    -> ~options.SkipSQLi
                      [] u = "XSS"     -> ~options.SkipXSS
                      [] u = "Nmap"    -> ~options.SkipNmap}

\* The state after html.go:722-744: result and ctx created (ctx is done from
\* the start for a timeout <= 0), counters zero.
Init ==
    /\ options \in OptionSets
    /\ nmapOnHost \in BOOLEAN
    /\ faults = TRUE
    /\ target \in Targets
    /\ Cardinality(NotSkipped) <= MaxLaunched
    /\ ScanIdle
    /\ hist.track
    /\ FnIdle

\* All five categories enabled, the probing binary present, every probe
\* succeeding (what the probes find plays no part), and a timeout that sets
\* the kill timer.
InitAll ==
    /\ options = [SkipNmap |-> FALSE, SkipHeaders |-> FALSE, SkipTLS |-> FALSE,
                  SkipSQLi |-> FALSE, SkipXSS |-> FALSE]
    /\ nmapOnHost = TRUE
    /\ faults = FALSE
    /\ target = SecureTarget
    /\ ScanIdle
    /\ nmap.Timeout = MaxTimeout
    /\ ~hist.track
    /\ FnIdle

\* html.go:746-761
Count ==
    /\ opc = "count"
    /\ totalScans' = CountEnabled(1)
    /\ nChecks' = nChecks + GateCalls
    /\ opc' = LaunchPc("Headers")
    /\ UNCHANGED <<options, nmapOnHost, faults, target, upc, ret, errsRead, pct, mu, result,
                   completedScans, wg, done, ctxDone, branch, oErrs, risk, nEndTime,
                   nRiskLevel, returned, hist, nLock, nmap, fnVars>>

\* One of the five "if enabled { wg.Add(1); go func() {...}() }" blocks.
Launch(u) ==
    /\ opc = LaunchPc(u)
    /\ opc' = NextPc(u)
    /\ IF Enabled(u)
       THEN wg' = wg + 1 /\ upc' = [upc EXCEPT ![u] = "start"]
       ELSE UNCHANGED <<wg, upc>>
    /\ nChecks' = IF u = "Nmap" THEN nChecks + GateCalls ELSE nChecks
    /\ UNCHANGED <<options, nmapOnHost, faults, target, ret, errsRead, pct, mu, result, totalScans,
                   completedScans, done, ctxDone, branch, oErrs, risk, nEndTime,
                   nRiskLevel, returned, hist, nLock, nmap, fnVars>>

\* The worker's first statement: options.Progress.UpdateStatus(...).
UpdateStatus(u) ==
    /\ ~Crashed
    /\ upc[u] = "start"
    /\ upc' = [upc EXCEPT ![u] = "scan"]
    /\ UNCHANGED <<options, nmapOnHost, faults, target, opc, ret, errsRead, pct, mu, result,
                   totalScans, completedScans, wg, done, ctxDone, branch, oErrs, risk,
                   nEndTime, nRiskLevel, returned, hist, nLock, nChecks, nmap, fnVars>>

\* ScanNmap, part_003:257: nmap is looked up on the host; the function
\* returns its "not installed" error when the lookup fails.
NmapLookup ==
    /\ ~Crashed
    /\ upc["Nmap"] = "scan"
    /\ nmap.proc = "none"
    /\ nmap' = [nmap EXCEPT !.proc = IF IsNmapInstalled THEN "found" ELSE "absent"]
    /\ UNCHANGED <<options, nmapOnHost, faults, target, opc, upc, ret, errsRead, pct, mu, result,
                   totalScans, completedScans, wg, done, ctxDone, branch, oErrs, risk,
                   nEndTime, nRiskLevel, returned, hist, nLock, nChecks, fnVars>>

\* html.go:882: nmapTimeout := options.Timeout / 2
NmapTimeout == nmap.Timeout \div 2

\* ScanNmap, part_003:275-282: exec.Command looks nmap up once more and
\* keeps a failure in cmd.Err; the kill timer is set when timeout > 0.
NmapCommand ==
    /\ ~Crashed
    /\ upc["Nmap"] = "scan"
    /\ nmap.proc = "found"
    /\ nmap' = [nmap EXCEPT !.proc = IF nmapOnHost THEN "ready" ELSE "unready",
                            !.kill = IF NmapTimeout > 0 THEN "armed" ELSE "unset"]
    /\ UNCHANGED <<options, nmapOnHost, faults, target, opc, upc, ret, errsRead, pct, mu, result,
                   totalScans, completedScans, wg, done, ctxDone, branch, oErrs, risk,
                   nEndTime, nRiskLevel, returned, hist, nLock, nChecks, fnVars>>

\* ScanNmap, part_003:284: CombinedOutput starts the process from the path
\* exec.Command resolved, without looking nmap up again, or fails to:
\* cmd.Err is set, the file of that path is no longer there (the host has
\* changed since, whether or not nmap is in PATH now), or fork or exec
\* fails.  (After a change of PATH alone the resolved path still runs.)
\* The path is not used again.
NmapStart ==
    /\ ~Crashed
    /\ upc["Nmap"] = "scan"
    /\ nmap.proc \in {"ready", "unready"}
    /\ \E started \in (IF nmap.proc = "ready" THEN {TRUE} ELSE {})
                          \cup (IF \/ nmap.proc = "unready"
                                   \/ ~nmapOnHost
                                   \/ nmap.stale
                                   \/ faults
                                THEN {FALSE} ELSE {}) :
          nmap' = [nmap EXCEPT !.proc = IF started THEN "running" ELSE "failed",
                               !.stale = FALSE]
    /\ UNCHANGED <<options, nmapOnHost, faults, target, opc, upc, ret, errsRead, pct, mu, result,
                   totalScans, completedScans, wg, done, ctxDone, branch, oErrs, risk,
                   nEndTime, nRiskLevel, returned, hist, nLock, nChecks, fnVars>>

ScanNmap == NmapLookup \/ NmapCommand \/ NmapStart

\* What analyzer u can return: (output, nil) or, when it can fail, (nil, err).
\* ScanNmap (part_003:252-303) returns its output when nmap exited with
\* status 0 and its XML parsed, and an error when nmap is not in PATH, did not
\* start, exited otherwise or was killed; until the process has ended
\* CombinedOutput waits.
Returns(u) ==
    IF u = "Nmap"
    THEN CASE nmap.proc = "done" -> {"ok"}
           [] nmap.proc \in {"absent", "failed", "error", "killed"} -> {"err"}
           [] OTHER -> {}
    ELSE {"ok"} \cup (IF CanFail(u) THEN {"err"} ELSE {})

\* A worker that gives up once the deadline has expired.
Lock1UnlessCancelled(u) ==
    /\ ~Crashed
    /\ ~ctxDone
    /\ upc[u] = "scan"
    /\ mu = "free"
    /\ \E r \in Returns(u) : ret' = [ret EXCEPT ![u] = r]
    /\ mu' = u
    /\ nLock' = [nLock EXCEPT ![u] = @ + 1]
    /\ upc' = [upc EXCEPT ![u] = "cs1"]
    /\ UNCHANGED <<options, nmapOnHost, faults, target, opc, errsRead, pct, result,
                   totalScans, completedScans, wg, done, ctxDone, branch, oErrs, risk,
                   nEndTime, nRiskLevel, returned, hist, nChecks, nmap, fnVars>>

\* The analyzer returns (output, nil) or (nil, err) and the worker takes the
\* lock: mu.Lock() at 780/803/830/857/885.  (The return touches only the
\* worker's locals, so it is taken together with the Lock that follows it.)
Lock1(u) ==
    /\ ~Crashed
    /\ upc[u] = "scan"
    /\ mu = "free"
    /\ \E r \in Returns(u) : ret' = [ret EXCEPT ![u] = r]
    /\ mu' = u
    /\ nLock' = [nLock EXCEPT ![u] = @ + 1]
    /\ upc' = [upc EXCEPT ![u] = "cs1"]
    /\ UNCHANGED <<options, nmapOnHost, faults, target, opc, errsRead, pct, result,
                   totalScans, completedScans, wg, done, ctxDone, branch, oErrs, risk,
                   nEndTime, nRiskLevel, returned, hist, nChecks, nmap, fnVars>>

\* The write with the assignment of the output not under the else.
WriteResultAssignsAnyway(u) ==
    IF ret[u] = "err"
    THEN [result EXCEPT !.Errors = Append(Deref(errsRead[u]), ErrOf(u)),
                        ![Field(u)] = Ptr(Out(u))]
    ELSE [result EXCEPT ![Field(u)] = Ptr(Out(u))]

\* The worker's write under the lock: result.Errors = append(..., err), with
\* the value append read before, or result.<field> = output.
WriteResult(u) ==
    IF ret[u] = "err"
    THEN [result EXCEPT !.Errors = Append(Deref(errsRead[u]), ErrOf(u))]
    ELSE [result EXCEPT ![Field(u)] = Ptr(Out(u))]

\* The first statement under the lock (html.go:782/784 and siblings).  On
\* the error path utils.Error(...) writes the log line to stdout and to the
\* log file, and append then reads result.Errors; on the other path the
\* output is assigned.  The log call returns when its write does: the step
\* can take any time, with mu held.
Stmt1(u) ==
    /\ ~Crashed
    /\ upc[u] = "cs1"
    /\ mu = u
    /\ IF ret[u] = "err"
       THEN /\ errsRead' = [errsRead EXCEPT ![u] = Ptr(result.Errors)]
            /\ UNCHANGED result
       ELSE /\ result' = WriteResult(u)
            /\ UNCHANGED errsRead
    /\ upc' = [upc EXCEPT ![u] = "cs1b"]
    /\ UNCHANGED <<options, nmapOnHost, faults, target, opc, ret, pct, mu,
                   totalScans, completedScans, wg, done, ctxDone, branch, oErrs, risk,
                   nEndTime, nRiskLevel, returned, hist, nLock, nChecks, nmap, fnVars>>

\* The second statement under the lock (html.go:783/786 and siblings), then
\* mu.Unlock() at 788/815/842/869/893.  On the error path result.Errors is
\* assigned what append built from its read; on the other path
\* utils.Info(...) writes the log line.
Write1(u) ==
    /\ ~Crashed
    /\ upc[u] = "cs1b"
    /\ mu = u
    /\ IF ret[u] = "err"
       THEN /\ result' = WriteResult(u)
            /\ errsRead' = [errsRead EXCEPT ![u] = NULL]
       ELSE UNCHANGED <<result, errsRead>>
    /\ mu' = "free"
    /\ upc' = [upc EXCEPT ![u] = "progress"]
    /\ UNCHANGED <<options, nmapOnHost, faults, target, opc, ret, pct,
                   totalScans, completedScans, wg, done, ctxDone, branch, oErrs, risk,
                   nEndTime, nRiskLevel, returned, hist, nLock, nChecks, nmap, fnVars>>

\* html.go:766
Percent(completed, total) == (completed * 100) \div total

\* updateProgress, html.go:764: mu.Lock()
Lock2(u) ==
    /\ ~Crashed
    /\ upc[u] = "progress"
    /\ mu = "free"
    /\ mu' = u
    /\ nLock' = [nLock EXCEPT ![u] = @ + 1]
    /\ upc' = [upc EXCEPT ![u] = "cs2"]
    /\ UNCHANGED <<options, nmapOnHost, faults, target, opc, ret, errsRead, pct, result,
                   totalScans, completedScans, wg, done, ctxDone, branch, oErrs, risk,
                   nEndTime, nRiskLevel, returned, hist, nChecks, nmap, fnVars>>

\* updateProgress, html.go:765-767: count, compute the percentage, unlock.
\* With totalScans = 0 the integer division panics: the deferred wg.Done()
\* runs and mu.Unlock() (not deferred) does not.  The other goroutines run
\* on until the runtime ends the process (FatalPanic).
CountCompleted(u) ==
    /\ ~Crashed
    /\ upc[u] = "cs2"
    /\ mu = u
    /\ completedScans' = completedScans + 1
    /\ IF totalScans = 0
       THEN /\ upc' = [upc EXCEPT ![u] = "panic"]
            /\ wg' = wg - 1
            /\ UNCHANGED <<pct, mu>>
       ELSE /\ pct' = [pct EXCEPT ![u] = Percent(completedScans + 1, totalScans)]
            /\ mu' = "free"
            /\ upc' = [upc EXCEPT ![u] = "callback"]
            /\ UNCHANGED wg
    /\ UNCHANGED <<options, nmapOnHost, faults, target, opc, ret, errsRead, result,
                   totalScans, done, ctxDone, branch, oErrs, risk,
                   nEndTime, nRiskLevel, returned, hist, nLock, nChecks, nmap, fnVars>>

\* updateProgress, html.go:768: options.Progress.UpdateProgress(..., percent),
\* then the deferred wg.Done().
UpdateProgress(u) ==
    /\ ~Crashed
    /\ upc[u] = "callback"
    /\ upc' = [upc EXCEPT ![u] = "fin"]
    /\ pct' = [pct EXCEPT ![u] = 0]
    /\ wg' = wg - 1
    /\ UNCHANGED <<options, nmapOnHost, faults, target, opc, ret, errsRead, mu, result,
                   totalScans, completedScans, done, ctxDone, branch, oErrs, risk,
                   nEndTime, nRiskLevel, returned, hist, nLock, nChecks, nmap, fnVars>>

\* Waiter with the wg.Wait() of html.go:902 left out: done is closed while
\* workers are still running.
WaiterEarly ==
    /\ ~Launching
    /\ ~Crashed
    /\ ~done
    /\ done' = TRUE
    /\ UNCHANGED <<options, nmapOnHost, faults, target, opc, upc, ret, errsRead, pct, mu, result,
                   totalScans, completedScans, wg, ctxDone, branch, oErrs, risk,
                   nEndTime, nRiskLevel, returned, hist, nLock, nChecks, nmap, fnVars>>

\* html.go:901-904: the goroutine that closes done once wg.Wait() returns,
\* before the select or after it.
Waiter ==
    /\ ~Launching
    /\ ~Crashed
    /\ wg = 0
    /\ ~done
    /\ done' = TRUE
    /\ UNCHANGED <<options, nmapOnHost, faults, target, opc, upc, ret, errsRead, pct, mu, result,
                   totalScans, completedScans, wg, ctxDone, branch, oErrs, risk,
                   nEndTime, nRiskLevel, returned, hist, nLock, nChecks, nmap, fnVars>>

\* The timer of context.WithTimeout fires, before the select or after it
\* (for a timeout <= 0 ctx is done from the start).  Durations are not
\* modelled: nothing bounds the time a goroutine takes for a step, so the
\* timer can be due at any point of the run.
Deadline ==
    /\ ~Crashed
    /\ ~ctxDone
    /\ ctxDone' = TRUE
    /\ hist' = [hist EXCEPT !.onTime = AllFinished,
                            !.late = IF hist.track
                                     THEN {u \in Units : ~Ended(u)}
                                     ELSE {}]
    /\ UNCHANGED <<options, nmapOnHost, faults, target, opc, upc, ret, errsRead, pct, mu, result,
                   totalScans, completedScans, wg, done, branch, oErrs, risk,
                   nEndTime, nRiskLevel, returned, nLock, nChecks, nmap, fnVars>>

\* select, case <-done (html.go:907-909)
SelectDone ==
    /\ opc = "select"
    /\ done
    /\ branch' = "done"
    /\ opc' = "finalize"
    /\ UNCHANGED <<options, nmapOnHost, faults, target, upc, ret, errsRead, pct, mu, result,
                   totalScans, completedScans, wg, done, ctxDone, oErrs, risk,
                   nEndTime, nRiskLevel, returned, hist, nLock, nChecks, nmap, fnVars>>

\* select, case <-ctx.Done() (html.go:910-912): append reads result.Errors.
SelectTimeout ==
    /\ opc = "select"
    /\ ctxDone
    /\ branch' = "timeout"
    /\ oErrs' = Ptr(result.Errors)
    /\ opc' = "appendTimeout"
    /\ UNCHANGED <<options, nmapOnHost, faults, target, upc, ret, errsRead, pct, mu, result,
                   totalScans, completedScans, wg, done, ctxDone, risk,
                   nEndTime, nRiskLevel, returned, hist, nLock, nChecks, nmap, fnVars>>

\* html.go:912: result.Errors = append(<what was read>, "scan timeout exceeded"),
\* without holding mu.
AppendTimeout ==
    /\ opc = "appendTimeout"
    /\ result' = [result EXCEPT !.Errors = Append(Deref(oErrs), TimeoutErr)]
    /\ oErrs' = NULL
    /\ opc' = "finalize"
    /\ UNCHANGED <<options, nmapOnHost, faults, target, upc, ret, errsRead, pct, mu,
                   totalScans, completedScans, wg, done, ctxDone, branch, risk,
                   nEndTime, nRiskLevel, returned, hist, nLock, nChecks, nmap, fnVars>>

\* html.go:915: result.EndTime is set, without holding mu, and
\* CalculateRiskLevel is entered with its three counters at 0.
Finalize ==
    /\ opc = "finalize"
    /\ nEndTime' = nEndTime + 1
    /\ risk' = Ptr(NoCounts)
    /\ result' = [result EXCEPT !.EndTime = "set"]
    /\ hist' = [hist EXCEPT !.written = IF hist.track THEN {u \in Units : HasWritten(u)} ELSE {}]
    /\ opc' = "readSQLi"
    /\ UNCHANGED <<options, nmapOnHost, faults, target, upc, ret, errsRead, pct, mu,
                   totalScans, completedScans, wg, done, ctxDone, branch, oErrs,
                   nRiskLevel, returned, nLock, nChecks, nmap, fnVars>>

\* CalculateRiskLevel's reads of result, one field after the other and
\* without holding mu: SQLiResults (html.go:930), XSSResults (941),
\* TLSResults (953) and HeaderResults (958).  A worker can write between two
\* of them.
ReadResult ==
    /\ opc \in {"readSQLi", "readXSS", "readTLS", "readHeaders"}
    /\ risk' = Ptr(CASE opc = "readSQLi" -> CountVulns(Deref(risk), result.SQLiResults)
                      [] opc = "readXSS" -> CountVulns(Deref(risk), result.XSSResults)
                      [] opc = "readTLS" -> CountTLS(Deref(risk), result.TLSResults)
                      [] opc = "readHeaders" -> CountHeaders(Deref(risk), result.HeaderResults))
    /\ opc' = CASE opc = "readSQLi" -> "readXSS"
                 [] opc = "readXSS" -> "readTLS"
                 [] opc = "readTLS" -> "readHeaders"
                 [] opc = "readHeaders" -> "setRisk"
    /\ UNCHANGED <<options, nmapOnHost, faults, target, upc, ret, errsRead, pct, mu, result,
                   totalScans, completedScans, wg, done, ctxDone, branch, oErrs,
                   nEndTime, nRiskLevel, returned, hist, nLock, nChecks, nmap, fnVars>>

\* html.go:916: the assignment of the value CalculateRiskLevel returned.
SetRiskLevel ==
    /\ opc = "setRisk"
    /\ result' = [result EXCEPT !.RiskLevel = DetermineRisk(Deref(risk))]
    /\ nRiskLevel' = nRiskLevel + 1
    /\ risk' = NULL
    /\ opc' = "finalProgress"
    /\ UNCHANGED <<options, nmapOnHost, faults, target, upc, ret, errsRead, pct, mu,
                   totalScans, completedScans, wg, done, ctxDone, branch, oErrs,
                   nEndTime, returned, hist, nLock, nChecks, nmap, fnVars>>

\* html.go:918-920: the final UpdateProgress("All scans complete", 100) and
\* return result, nil; the deferred cancel() of html.go:734 closes ctx.Done().
Return ==
    /\ opc = "finalProgress"
    /\ opc' = "returned"
    /\ returned' = Ptr([result |-> Ptr("result"), err |-> NULL])
    /\ ctxDone' = TRUE
    /\ UNCHANGED <<options, nmapOnHost, faults, target, upc, ret, errsRead, pct, mu, result,
                   totalScans, completedScans, wg, done, branch, oErrs, risk,
                   nEndTime, nRiskLevel, hist, nLock, nChecks, nmap, fnVars>>

\* The nmap process ends by itself: status 0 with XML that parses, or not
\* (part_003:285-294).
NmapExit ==
    /\ ~Crashed
    /\ nmap.proc = "running"
    /\ \E how \in {"done"} \cup (IF CanFail("Nmap") THEN {"error"} ELSE {}) :
          nmap' = [nmap EXCEPT !.proc = how]
    /\ UNCHANGED <<options, nmapOnHost, faults, target, opc, upc, ret, errsRead, pct, mu, result,
                   totalScans, completedScans, wg, done, ctxDone, branch, oErrs, risk,
                   nEndTime, nRiskLevel, returned, hist, nLock, nChecks, fnVars>>

\* The timer of part_003:279-283 fires: cmd.Process.Kill().  A running
\* process is killed; for one that has ended Kill returns an error that is
\* dropped; while the process has not started, and when it failed to start,
\* cmd.Process is nil and the call panics in the timer's goroutine.  The
\* timer can be due at any point after it was set.
NmapKill ==
    /\ ~Crashed
    /\ nmap.kill = "armed"
    /\ nmap' = [nmap EXCEPT !.kill = IF nmap.proc \in {"ready", "unready", "failed"}
                                     THEN "panicked" ELSE "fired",
                            !.proc = IF @ = "running" THEN "killed" ELSE @]
    /\ UNCHANGED <<options, nmapOnHost, faults, target, opc, upc, ret, errsRead, pct, mu, result,
                   totalScans, completedScans, wg, done, ctxDone, branch, oErrs, risk,
                   nEndTime, nRiskLevel, returned, hist, nLock, nChecks, fnVars>>

\* A goroutine has panicked: a worker in updateProgress (html.go:766) or
\* the kill timer (part_003:280).
Panicking == (\E u \in Units : upc[u] = "panic") \/ nmap.kill = "panicked"

\* The panic is not recovered: once the deferred calls of the goroutine
\* have run, the runtime prints the panic and ends the process.  Until
\* then every other goroutine runs on.
FatalPanic ==
    /\ ~Crashed
    /\ Panicking
    /\ opc' = "crashed"
    /\ UNCHANGED <<options, nmapOnHost, faults, target, upc, ret, errsRead, pct, mu, result,
                   totalScans, completedScans, wg, done, ctxDone, branch, oErrs, risk,
                   nEndTime, nRiskLevel, returned, hist, nLock, nChecks, nmap, fnVars>>

Orchestrator ==
    \/ Count
    \/ \E u \in Units : Launch(u)
    \/ SelectDone
    \/ SelectTimeout
    \/ AppendTimeout
    \/ Finalize
    \/ ReadResult
    \/ SetRiskLevel
    \/ Return

Worker(u) ==
    \/ UpdateStatus(u)
    \/ u = "Nmap" /\ ScanNmap
    \/ Lock1(u)
    \/ Stmt1(u)
    \/ Write1(u)
    \/ Lock2(u)
    \/ CountCompleted(u)
    \/ UpdateProgress(u)

Next ==
    \/ Orchestrator
    \/ \E u \in Units : Worker(u)
    \/ Waiter
    \/ Deadline
    \/ NmapExit
    \/ NmapKill
    \/ FatalPanic

Spec == Init /\ [][Next]_vars

SpecAll == InitAll /\ [][Next]_vars


(***************************************************************************)
(* SpecHost.  exec.LookPath("nmap") is asked of the host each time         *)
(* IsNmapInstalled is called, in ScanNmap and in exec.Command, and the     *)
(* host can change between the calls: the binary is installed, removed,    *)
(* or PATH is changed.                                                     *)
(***************************************************************************)
\* The host gains or loses the binary, at any moment.  A path that
\* exec.Command has resolved and CombinedOutput has not used yet is stale
\* from then on: a binary that comes back need not come back at that path.
HostChange ==
    /\ nmapOnHost' = ~nmapOnHost
    /\ nmap' = [nmap EXCEPT !.stale = @ \/ nmap.proc = "ready"]
    /\ UNCHANGED <<options, faults, target, opc, upc, ret, errsRead, pct, mu, result,
                   totalScans, completedScans, wg, done, ctxDone, branch, oErrs, risk,
                   nEndTime, nRiskLevel, returned, hist, nLock, nChecks, fnVars>>

\* At most MaxLaunched categories are not skipped.
InitHost ==
    /\ options \in OptionSets
    /\ nmapOnHost \in BOOLEAN
    /\ faults = FALSE
    /\ target \in Targets
    /\ Cardinality(NotSkipped) <= MaxLaunched
    /\ ScanIdle
    /\ ~hist.track
    /\ FnIdle

NextHost ==
    \/ Next
    \/ HostChange

SpecHost == InitHost /\ [][NextHost]_vars


(***************************************************************************)
(* SpecNmap.  A run with the port probe enabled and nmap in PATH.          *)
(***************************************************************************)
\* The port probe is enabled and nmap is in PATH.
InitNmap ==
    /\ options \in OptionSets
    /\ ~options.SkipNmap
    /\ nmapOnHost = TRUE
    /\ faults = TRUE
    /\ target \in Targets
    /\ Cardinality(NotSkipped) <= MaxLaunched
    /\ ScanIdle
    /\ ~hist.track
    /\ FnIdle

SpecNmap == InitNmap /\ [][Next]_vars


(***************************************************************************)
(* FairSpec.  The Go scheduler runs every runnable goroutine, so the       *)
(* orchestrator and the waiter goroutine always get to take their next     *)
(* step, the timer of context.WithTimeout fires, and the runtime ends the  *)
(* process after a panic.  Nothing is assumed of the workers, of the kill  *)
(* timer or of the host: an analyzer may take for ever.                    *)
(***************************************************************************)
Fairness ==
    /\ WF_vars(Orchestrator)
    /\ WF_vars(Waiter)
    /\ WF_vars(Deadline)
    /\ WF_vars(FatalPanic)

FairSpec == Init /\ [][NextHost]_vars /\ Fairness

(***************************************************************************)
(* SpecRisk: CalculateRiskLevel on the ScanResults a caller can build.     *)
(***************************************************************************)
\* Bound of SpecRisk: the length of a vulnerability list.
MaxVulns == 2

Severities == {"critical", "high", "medium", "low"}

VulnLists ==
    UNION {[1..n -> [Type : {"finding"}, Severity : Severities, Location : {"q"}]] : n \in 0..MaxVulns}

TLSScans ==
    {[Protocol |-> "TLS 1.3", CipherSuite |-> "TLS_AES_128_GCM_SHA256", IsSecure |-> TRUE,
      Score |-> 100, Vulnerabilities |-> <<>>],
     [Protocol |-> "TLS 1.0", CipherSuite |-> "TLS_RSA_WITH_RC4_128_SHA", IsSecure |-> FALSE,
      Score |-> 40, Vulnerabilities |-> <<"Outdated TLS version">>]}

HeaderScores == {0, 42, 49, 50, 57, 100}

HeaderScans ==
    {[Headers |-> <<>>, MissingHeaders |-> <<>>, WeakHeaders |-> <<>>,
      PresentHeaders |-> <<>>, SecurityScore |-> sc] : sc \in HeaderScores}

OrNil(S) == {NULL} \cup {Ptr(x) : x \in S}

RiskInputs ==
    {[EmptyResult EXCEPT !.SQLiResults = sq, !.XSSResults = xs,
                         !.TLSResults = tl, !.HeaderResults = hd] :
        sq \in OrNil(VulnLists), xs \in OrNil(VulnLists),
        tl \in OrNil(TLSScans), hd \in OrNil(HeaderScans)}

\* The orchestrator's variables while a function is studied on its own.
ScanUnused ==
    /\ options = [SkipNmap |-> TRUE, SkipHeaders |-> TRUE, SkipTLS |-> TRUE,
                  SkipSQLi |-> TRUE, SkipXSS |-> TRUE]
    /\ nmapOnHost = FALSE
    /\ faults = FALSE
    /\ target = VulnerableTarget
    /\ ScanIdle
    /\ nmap = NmapIdle
    /\ ~hist.track

InitRisk ==
    /\ ScanUnused
    /\ fpc = "in"
    /\ input \in RiskInputs
    /\ output = NULL

CallCalculateRiskLevel ==
    /\ fpc = "in"
    /\ output' = CalculateRiskLevel(input)
    /\ fpc' = "out"
    /\ UNCHANGED <<scanVars, input>>

SpecRisk == InitRisk /\ [][CallCalculateRiskLevel]_vars

(***************************************************************************)
(* SpecHeaders: ScanHeaders on the responses a server can give.            *)
(***************************************************************************)
\* The values a server sends for a header: none, a strong one, weak ones.
WireValues(name) ==
    CASE name = "Strict-Transport-Security" ->
             {<<>>, <<"max-age=31536000; includeSubDomains">>, <<"max-age=3600">>,
              <<"includeSubDomains;\tmax-age=31536000">>, <<"max-age= 31536000">>,
              <<"max-age=31536000_">>, <<"includeSubDomains;max-age=31536000">>,
              <<"max-age=99999999999">>}
      [] name = "Content-Security-Policy" ->
             {<<>>, <<"default-src 'self'">>, <<"default-src *">>,
              <<"default-src 'self'", "script-src 'unsafe-inline'">>}
      [] name = "X-Frame-Options" -> {<<>>, <<"DENY">>, <<"ALLOW-FROM https://a.example">>}
      [] name = "X-Content-Type-Options" -> {<<>>, <<"nosniff">>}
      [] name = "Referrer-Policy" -> {<<>>, <<"no-referrer">>}
      [] name = "Permissions-Policy" -> {<<>>, <<"geolocation=()">>}
      [] name = "X-XSS-Protection" -> {<<>>, <<"1; mode=block">>, <<"0">>}

WireTuples ==
    WireValues(securityHeaders[1].Name) \X WireValues(securityHeaders[2].Name)
    \X WireValues(securityHeaders[3].Name) \X WireValues(securityHeaders[4].Name)
    \X WireValues(securityHeaders[5].Name) \X WireValues(securityHeaders[6].Name)
    \X WireValues(securityHeaders[7].Name)

\* The lines of such a choice of values, header by header.
RECURSIVE LinesFrom(_, _)
LinesFrom(t, i) ==
    IF i > Len(t) THEN <<>>
    ELSE [k \in 1..Len(t[i]) |-> [name |-> securityHeaders[i].Name, value |-> t[i][k]]]
         \o LinesFrom(t, i + 1)

\* Blocks that are not written the usual way: names in lower case, a header
\* of another kind in upper case, a header sent twice in different case,
\* a space before the colon, a name that is no token, blanks around a value.
OddWires ==
    {[i \in 1..Len(SecureWire) |-> [SecureWire[i] EXCEPT !.name = ToLower(@)]],
     <<[name |-> "SERVER", value |-> "nginx"]>> \o SecureWire,
     Append(SecureWire, [name |-> "x-frame-options", value |-> "ALLOW-FROM https://a.example"]),
     [SecureWire EXCEPT ![3].name = "X-Frame-Options "],
     [SecureWire EXCEPT ![3].name = "X-Frame(Options"],
     [SecureWire EXCEPT ![4].value = " \tnosniff \t"]}

Wires == {LinesFrom(t, 1) : t \in WireTuples} \cup OddWires

Probes == [headOK : BOOLEAN, getOK : BOOLEAN, wire : Wires]

InitHeaders ==
    /\ ScanUnused
    /\ fpc = "in"
    /\ input \in Probes
    /\ output = NULL

CallScanHeaders ==
    /\ fpc = "in"
    /\ output' = ScanHeaders(input)
    /\ fpc' = "out"
    /\ UNCHANGED <<scanVars, input>>

SpecHeaders == InitHeaders /\ [][CallScanHeaders]_vars


(***************************************************************************)
(* TLS analyzer (tls.go).                                                  *)
(***************************************************************************)
\* crypto/tls protocol versions, as compared at tls.go:82 and 87.
VersionSSL30 == 768
VersionTLS10 == 769
VersionTLS11 == 770
VersionTLS12 == 771
VersionTLS13 == 772

\* crypto/tls cipher suite ids with the names tls.CipherSuiteName gives them.
CipherSuites ==
    <<[id |-> 5,     name |-> "TLS_RSA_WITH_RC4_128_SHA"],
      [id |-> 10,    name |-> "TLS_RSA_WITH_3DES_EDE_CBC_SHA"],
      [id |-> 47,    name |-> "TLS_RSA_WITH_AES_128_CBC_SHA"],
      [id |-> 53,    name |-> "TLS_RSA_WITH_AES_256_CBC_SHA"],
      [id |-> 49169, name |-> "TLS_ECDHE_RSA_WITH_RC4_128_SHA"],
      [id |-> 49170, name |-> "TLS_ECDHE_RSA_WITH_3DES_EDE_CBC_SHA"],
      [id |-> 49171, name |-> "TLS_ECDHE_RSA_WITH_AES_128_CBC_SHA"],
      [id |-> 49199, name |-> "TLS_ECDHE_RSA_WITH_AES_128_GCM_SHA256"],
      [id |-> 4865,  name |-> "TLS_AES_128_GCM_SHA256"]>>

CipherSuiteId(name) ==
    LET i == CHOOSE k \in DOMAIN CipherSuites : CipherSuites[k].name = name
    IN  CipherSuites[i].id

CipherSuiteName(id) ==
    LET i == CHOOSE k \in DOMAIN CipherSuites : CipherSuites[k].id = id
    IN  CipherSuites[i].name

\* fmt's %d of a non-negative int.
RECURSIVE Itoa(_)
Itoa(n) ==
    IF n < 10 THEN Char(DigitChars, n + 1)
    ELSE Itoa(n \div 10) \o Char(DigitChars, (n % 10) + 1)

\* fmt's %04x of a uint16.
HexChars == "0123456789abcdef"
Hex4(v) ==
    Char(HexChars, ((v \div 4096) % 16) + 1) \o Char(HexChars, ((v \div 256) % 16) + 1)
        \o Char(HexChars, ((v \div 16) % 16) + 1) \o Char(HexChars, (v % 16) + 1)

\* Go's int(x / y) for a float quotient: truncation toward zero.
TruncDiv(a, b) == IF a >= 0 THEN a \div b ELSE -((-a) \div b)

\* tls.go:121-136
getTLSVersion(version) ==
    CASE version = VersionSSL30 -> "SSL 3.0"
      [] version = VersionTLS10 -> "TLS 1.0"
      [] version = VersionTLS11 -> "TLS 1.1"
      [] version = VersionTLS12 -> "TLS 1.2"
      [] version = VersionTLS13 -> "TLS 1.3"
      [] OTHER -> "Unknown (0x" \o Hex4(version) \o ")"

\* tls.go:139-150
isWeakCipher(suite) ==
    suite \in {CipherSuiteId("TLS_RSA_WITH_RC4_128_SHA"),
               CipherSuiteId("TLS_RSA_WITH_3DES_EDE_CBC_SHA"),
               CipherSuiteId("TLS_RSA_WITH_AES_128_CBC_SHA"),
               CipherSuiteId("TLS_RSA_WITH_AES_256_CBC_SHA"),
               CipherSuiteId("TLS_ECDHE_RSA_WITH_3DES_EDE_CBC_SHA"),
               CipherSuiteId("TLS_ECDHE_RSA_WITH_RC4_128_SHA")}

\* tls.go:153-172.  probes holds what the three extra handshakes give:
\* sslv3 and tls10 (testProtocolSupport) and weak (testWeakCipherSupport).
testTLSVulnerabilities(probes) ==
    (IF probes.sslv3 THEN <<"SSLv3 supported (POODLE vulnerability)">> ELSE <<>>)
    \o (IF probes.tls10 THEN <<"TLS 1.0 supported (BEAST vulnerability)">> ELSE <<>>)
    \o (IF probes.weak THEN <<"Weak cipher suites supported">> ELSE <<>>)

\* tls.go:53-77: the leaf certificate.  A certificate is the time left until
\* its NotAfter, in hours (negative once it has passed).
CheckCertificate(scan, certs) ==
    IF Len(certs) = 0 THEN scan
    ELSE LET untilHours   == certs[1].untilHours
             daysToExpiry == TruncDiv(untilHours, 24)
             IsExpired    == untilHours < 0
         IN  IF IsExpired
             THEN [scan EXCEPT !.Vulnerabilities = Append(@, "Certificate has expired"),
                               !.IsSecure = FALSE,
                               !.Score = @ - 50]
             ELSE IF daysToExpiry < 30
             THEN [scan EXCEPT !.Vulnerabilities = Append(@,
                       "Certificate expires soon (" \o Itoa(daysToExpiry) \o " days)"),
                               !.Score = @ - 10]
             ELSE scan

\* tls.go:81-91
CheckVersion(scan, version) ==
    IF version < VersionTLS12
    THEN [scan EXCEPT !.Vulnerabilities = Append(@,
              "Outdated TLS version: " \o scan.Protocol \o " (TLS 1.2+ recommended)"),
                      !.IsSecure = FALSE,
                      !.Score = @ - 30]
    ELSE IF version = VersionTLS12
    THEN [scan EXCEPT !.Vulnerabilities = Append(@,
              "TLS 1.2 is acceptable but TLS 1.3 is recommended"),
                      !.Score = @ - 5]
    ELSE scan

\* tls.go:93-99
CheckCipher(scan, suite) ==
    IF isWeakCipher(suite)
    THEN [scan EXCEPT !.Vulnerabilities = Append(@, "Weak cipher suite: " \o scan.CipherSuite),
                      !.Score = @ - 20,
                      !.IsSecure = FALSE]
    ELSE scan

\* One flat deduction for the probes, however many succeeded.
CheckProbesFlat(scan, vulnerabilities) ==
    LET appended == [scan EXCEPT !.Vulnerabilities = @ \o vulnerabilities]
    IN  IF Len(vulnerabilities) > 0
        THEN [appended EXCEPT !.Score = @ - 10, !.IsSecure = FALSE]
        ELSE appended

\* tls.go:101-107
CheckProbes(scan, vulnerabilities) ==
    LET appended == [scan EXCEPT !.Vulnerabilities = @ \o vulnerabilities]
    IN  IF Len(vulnerabilities) > 0
        THEN [appended EXCEPT !.Score = @ - 10 * Len(vulnerabilities), !.IsSecure = FALSE]
        ELSE appended

\* The clamp without its test: the score is left as the deductions made it.
ClampScoreLeft(scan) == scan

\* tls.go:109-112
ClampScore(scan) == IF scan.Score < 0 THEN [scan EXCEPT !.Score = 0] ELSE scan

\* ScanTLS, tls.go:15-118.  conn is what the target's TLS endpoint gives:
\* dialOK, the negotiated state (Version, CipherSuite, PeerCertificates) and
\* the outcomes of the three extra handshakes.
ScanTLS(tgt, conn) ==
    IF tgt.Protocol # "https"
    THEN [scan |-> Ptr([Protocol |-> "", CipherSuite |-> "", IsSecure |-> FALSE, Score |-> 0,
                        Vulnerabilities |-> <<"Target is not using HTTPS">>]),
          err |-> NULL]
    ELSE IF ~conn.dialOK
    THEN [scan |-> NULL, err |-> Ptr("TLS connection failed")]
    ELSE LET state == conn.state
             scan0 == [Protocol |-> getTLSVersion(state.Version),
                       CipherSuite |-> CipherSuiteName(state.CipherSuite),
                       Vulnerabilities |-> <<>>, IsSecure |-> TRUE, Score |-> 100]
             scan1 == CheckCertificate(scan0, state.PeerCertificates)
             scan2 == CheckVersion(scan1, state.Version)
             scan3 == CheckCipher(scan2, state.CipherSuite)
             scan4 == CheckProbes(scan3, testTLSVulnerabilities(conn.probes))
         IN  [scan |-> Ptr(ClampScore(scan4)), err |-> NULL]

(***************************************************************************)
(* SpecTLS: ScanTLS on the endpoints a target can present.                 *)
(***************************************************************************)
\* Hours until the leaf certificate's NotAfter: expired ten days ago, expired
\* within the last hour, a few hours left, just under and exactly thirty days,
\* a year.
CertHours == {-240, -1, 0, 23, 719, 720, 8760}

Certificates == {<<>>} \cup {<<[untilHours |-> h]>> : h \in CertHours}

TLSVersions == {VersionSSL30, VersionTLS10, VersionTLS11, VersionTLS12, VersionTLS13,
                VersionTLS13 + 1}

ConnStates ==
    [Version : TLSVersions,
     CipherSuite : {CipherSuites[k].id : k \in DOMAIN CipherSuites},
     PeerCertificates : Certificates]

TLSProbes == [sslv3 : BOOLEAN, tls10 : BOOLEAN, weak : BOOLEAN]

TLSInputs ==
    [tgt : [Protocol : {"http", "https"}],
     conn : [dialOK : BOOLEAN, state : ConnStates, probes : TLSProbes]]

InitTLS ==
    /\ ScanUnused
    /\ fpc = "in"
    /\ input \in TLSInputs
    /\ output = NULL

CallScanTLS ==
    /\ fpc = "in"
    /\ output' = ScanTLS(input.tgt, input.conn)
    /\ fpc' = "out"
    /\ UNCHANGED <<scanVars, input>>

SpecTLS == InitTLS /\ [][CallScanTLS]_vars

(***************************************************************************)
(* Injection analyzers (sqli.go, xss.go).                                  *)
(***************************************************************************)
\* sqli.go:16-30
sqliPayloads ==
    <<[payload |-> "'",                     description |-> "Single quote test"],
      [payload |-> "' OR '1'='1",           description |-> "Classic OR bypass"],
      [payload |-> "' OR '1'='1' --",       description |-> "OR bypass with comment"],
      [payload |-> "' OR 1=1 --",           description |-> "Numeric OR bypass"],
      [payload |-> "admin' --",             description |-> "Comment injection"],
      [payload |-> "' UNION SELECT NULL--", description |-> "UNION injection test"],
      [payload |-> "1' AND '1'='2",         description |-> "False condition test"],
      [payload |-> "'; DROP TABLE users--", description |-> "Destructive command test"],
      [payload |-> "' OR 'x'='x",           description |-> "Alternative OR bypass"],
      [payload |-> "1' ORDER BY 1--",       description |-> "ORDER BY enumeration"]>>

\* sqli.go:33-53
sqlErrorPatterns ==
    <<"sql syntax", "mysql_fetch", "mysql_num_rows", "mysqli", "sqlexception",
      "postgresql", "sqlite", "oracle", "odbc", "mssql", "jdbc", "ora-", "pg_query",
      "pg_exec", "syntax error", "unterminated quoted string", "unclosed quotation mark",
      "error in your sql syntax", "you have an error in your sql">>

\* sqli.go:197
pathPayloads == <<"'", "' OR '1'='1">>

\* xss.go:16-71
xssPayloads ==
    <<[payload |-> "<script>alert('XSS')</script>",
       pattern |-> "<script>alert('xss')</script>",
       description |-> "Basic script injection"],
      [payload |-> "<img src=x onerror=alert('XSS')>",
       pattern |-> "<img src=x onerror=alert('xss')>",
       description |-> "Image tag with onerror handler"],
      [payload |-> "<svg/onload=alert('XSS')>",
       pattern |-> "<svg/onload=alert('xss')>",
       description |-> "SVG with onload handler"],
      [payload |-> "\"><script>alert('XSS')</script>",
       pattern |-> "\"><script>alert('xss')</script>",
       description |-> "Breaking out of attribute"],
      [payload |-> "javascript:alert('XSS')",
       pattern |-> "javascript:alert('xss')",
       description |-> "JavaScript protocol handler"],
      [payload |-> "<iframe src=javascript:alert('XSS')>",
       pattern |-> "<iframe src=javascript:alert('xss')>",
       description |-> "Iframe with JavaScript URL"],
      [payload |-> "<body onload=alert('XSS')>",
       pattern |-> "<body onload=alert('xss')>",
       description |-> "Body tag with onload"],
      [payload |-> "<input onfocus=alert('XSS') autofocus>",
       pattern |-> "<input onfocus=alert('xss') autofocus>",
       description |-> "Input with autofocus"],
      [payload |-> "<marquee onstart=alert('XSS')>",
       pattern |-> "<marquee onstart=alert('xss')>",
       description |-> "Marquee tag exploitation"],
      [payload |-> "<details open ontoggle=alert('XSS')>",
       pattern |-> "<details open ontoggle=alert('xss')>",
       description |-> "Details tag with ontoggle"]>>

\* xss.go:208-217
dangerousPatterns ==
    <<"location.hash", "window.location.hash", "document.location.hash", "location.href",
      "document.write(", "eval(", "innerhtml", "outerhtml">>

\* The fallback parameters (sqli.go:72-79, xss.go:90-99), in source order.
sqliDefaultParams ==
    <<[name |-> "id", value |-> "1"], [name |-> "user", value |-> "admin"],
      [name |-> "page", value |-> "1"], [name |-> "search", value |-> "test"],
      [name |-> "q", value |-> "test"], [name |-> "username", value |-> "admin"]>>

xssDefaultParams ==
    <<[name |-> "q", value |-> "test"], [name |-> "search", value |-> "test"],
      [name |-> "query", value |-> "test"], [name |-> "keyword", value |-> "test"],
      [name |-> "name", value |-> "test"], [name |-> "comment", value |-> "test"],
      [name |-> "message", value |-> "test"], [name |-> "input", value |-> "test"]>>

\* The first pattern of patterns[i..] that body contains, "" when none does.
RECURSIVE FirstPatternFrom(_, _, _)
FirstPatternFrom(body, patterns, i) ==
    IF i > Len(patterns) THEN ""
    ELSE IF Contains(body, patterns[i]) THEN patterns[i]
    ELSE FirstPatternFrom(body, patterns, i + 1)

\* sqli.go:166-173
detectSQLError(body) == FirstPatternFrom(body, sqlErrorPatterns, 1)

\* The length test with >= in place of >: a difference of exactly 10% counts.
detectBehaviorChangeInclusive(baselineStatus, testStatus, baselineLength, testLength) ==
    \/ baselineStatus # testStatus
    \/ 10 * (testLength - baselineLength) >= baselineLength
    \/ 10 * (testLength - baselineLength) <= -baselineLength

\* sqli.go:176-189.  float64(test-base)/float64(base) > 0.1 is
\* 10*(test-base) > base for the lengths of a body: the quotient of an exact
\* tenth rounds to the double of the literal 0.1; a zero baseline gives +Inf
\* for a longer body and NaN, which compares false, for an empty one.
detectBehaviorChange(baselineStatus, testStatus, baselineLength, testLength) ==
    \/ baselineStatus # testStatus
    \/ 10 * (testLength - baselineLength) > baselineLength
    \/ 10 * (testLength - baselineLength) < -baselineLength

\* strings.ReplaceAll(s, old, "") for a one-character old.
RECURSIVE RemoveChar(_, _, _)
RemoveChar(s, old, i) ==
    IF i > Len(s) THEN ""
    ELSE (IF Char(s, i) = old THEN "" ELSE Char(s, i)) \o RemoveChar(s, old, i + 1)

\* xss.go:172-189
checkPartialReflection(body, payload) ==
    LET cleanPayload ==
            ToLower(RemoveChar(RemoveChar(RemoveChar(RemoveChar(payload, "<", 1), ">", 1),
                                          "'", 1), "\"", 1))
    IN  \/ Contains(cleanPayload, "alert") /\ Contains(body, "alert")
        \/ Contains(cleanPayload, "xss") /\ Contains(body, "xss")

\* The byte of a printable ASCII character.
ByteOf(c) ==
    IF IndexIn(c, AsciiLow) > 0 THEN 31 + IndexIn(c, AsciiLow) ELSE 96 + IndexIn(c, AsciiHigh)

UpperHexChars == "0123456789ABCDEF"

\* url.PathEscape: letters, digits, -_.~ and $&+:=@ are kept, any other byte
\* becomes %XX.
RECURSIVE PathEscapeFrom(_, _)
PathEscapeFrom(s, i) ==
    IF i > Len(s) THEN ""
    ELSE LET c    == Char(s, i)
             byte == ByteOf(c)
             kept == IndexIn(c, UpperChars \o LowerChars \o DigitChars \o "-_.~$&+:=@") > 0
         IN  (IF kept THEN c
              ELSE "%" \o Char(UpperHexChars, (byte \div 16) + 1)
                       \o Char(UpperHexChars, (byte % 16) + 1))
             \o PathEscapeFrom(s, i + 1)

PathEscape(s) == PathEscapeFrom(s, 1)

\* What client.Get is asked for: the baseline URL, the URL with one parameter
\* set to a value, a path, or the URL with a fragment.
BaselineRequest == [kind |-> "baseline", name |-> "", value |-> ""]
ParamRequest(name, value) == [kind |-> "param", name |-> name, value |-> value]
PathRequest(path) == [kind |-> "path", name |-> "", value |-> path]
FragmentRequest(fragment) == [kind |-> "fragment", name |-> "", value |-> fragment]

\* The trace of an analyzer: its requests and its sleeps, in order.
Get(req) == [op |-> "GET", req |-> Ptr(req)]
Sleep100ms == [op |-> "sleep", req |-> NULL]

\* client.Get failing, and a response with its status and body.
RequestFailed == [err |-> TRUE, StatusCode |-> 0, body |-> ""]
Response(status, body) == [err |-> FALSE, StatusCode |-> status, body |-> body]

\* html.EscapeString, as an encoding handler applies it.
RECURSIVE EscapeFrom(_, _)
EscapeFrom(s, i) ==
    IF i > Len(s) THEN ""
    ELSE LET c == Char(s, i)
         IN  (CASE c = "&" -> "&amp;"
                [] c = "'" -> "&#39;"
                [] c = "<" -> "&lt;"
                [] c = ">" -> "&gt;"
                [] c = "\"" -> "&#34;"
                [] OTHER -> c)
             \o EscapeFrom(s, i + 1)

EscapeString(s) == EscapeFrom(s, 1)

\* How the target treats the value of a query parameter.
Handlers ==
    {"static",      \* ignores the value
     "down",        \* the request fails
     "waf",         \* drops the connection on " OR " and on "<script"
     "wafreflect",  \* the same, and writes any other value into the page
     "reflect",     \* writes the value into the page as it is
     "encode",      \* writes the value into the page entity-encoded
     "sqlerror",    \* a quote in the value makes the page a database error
     "sqlerror500", \* the same with status 500
     "error500",    \* a quote in the value gives status 500 and the usual page
     "union",       \* UNION in the value makes the page four times as long
     "pad1", "pad2", "cut1", "cut2"}  \* the page that many bytes longer or shorter

DatabaseError == "You have an error in your SQL syntax"

Handle(kind, value, page) ==
    CASE kind = "static"  -> Response(200, page)
      [] kind = "down"    -> RequestFailed
      [] kind = "waf"     -> IF Contains(value, " OR ") \/ Contains(ToLower(value), "<script")
                             THEN RequestFailed ELSE Response(200, page)
      [] kind = "wafreflect" ->
                             IF Contains(value, " OR ") \/ Contains(ToLower(value), "<script")
                             THEN RequestFailed ELSE Response(200, page \o value)
      [] kind = "reflect" -> Response(200, page \o value)
      [] kind = "encode"  -> Response(200, page \o EscapeString(value))
      [] kind = "sqlerror" -> IF Contains(value, "'") THEN Response(200, DatabaseError)
                              ELSE Response(200, page)
      [] kind = "sqlerror500" -> IF Contains(value, "'") THEN Response(500, DatabaseError)
                                 ELSE Response(200, page)
      [] kind = "error500" -> IF Contains(value, "'") THEN Response(500, page)
                              ELSE Response(200, page)
      [] kind = "union"   -> IF Contains(value, "UNION")
                             THEN Response(200, page \o page \o page \o page)
                             ELSE Response(200, page)
      [] kind = "pad1"    -> Response(200, page \o ".")
      [] kind = "pad2"    -> Response(200, page \o "..")
      [] kind = "cut1"    -> Response(200, SubSeq(page, 1, Len(page) - 1))
      [] kind = "cut2"    -> Response(200, SubSeq(page, 1, Len(page) - 2))

\* How the target treats an extra path segment.
PathHandlers == {"static", "down", "sqlerror", "orerror"}

HandlePath(kind, path, page) ==
    CASE kind = "static"   -> Response(404, page)
      [] kind = "down"     -> RequestFailed
      [] kind = "sqlerror" -> IF Contains(path, "%27") THEN Response(500, DatabaseError)
                              ELSE Response(404, page)
      [] kind = "orerror"  -> IF Contains(path, "%20OR%20") THEN Response(200, DatabaseError)
                              ELSE Response(404, page)

\* The target's answer to a request.  A parameter the target does not know
\* is ignored; the fragment of a URL is not sent.
Respond(server, req) ==
    CASE req.kind \in {"baseline", "fragment"} ->
             IF server.up THEN Response(200, server.page) ELSE RequestFailed
      [] req.kind = "param" ->
             Handle(IF req.name \in DOMAIN server.handler THEN server.handler[req.name]
                    ELSE "static", req.value, server.page)
      [] req.kind = "path" -> HandlePath(server.pathHandler, req.value, server.page)

\* What an analyzer has appended to vulnerabilities and what it has done
\* (requests and sleeps): nothing yet, and one stretch after another.
NoFindings == [vulns |-> <<>>, log |-> <<>>]
Then(a, b) == [vulns |-> a.vulns \o b.vulns, log |-> a.log \o b.log]

\* sqli.go:121-148: the finding a response gives for a parameter and a
\* payload, NULL when it gives none.
SQLiFinding(baseline, resp, paramName, payloadInfo) ==
    LET bodyStr  == ToLower(resp.body)
        sqlError == detectSQLError(bodyStr)
    IN  IF sqlError # ""
        THEN Ptr([Type |-> "sqli", Severity |-> "critical",
                  Location |-> "Parameter: " \o paramName,
                  Payload |-> payloadInfo.payload,
                  Evidence |-> "SQL error detected: " \o sqlError,
                  Description |-> payloadInfo.description \o " - SQL error exposed"])
        ELSE IF detectBehaviorChange(baseline.StatusCode, resp.StatusCode,
                                     ByteLen(baseline.body), ByteLen(resp.body))
        THEN Ptr([Type |-> "sqli", Severity |-> "high",
                  Location |-> "Parameter: " \o paramName,
                  Payload |-> payloadInfo.payload,
                  Evidence |-> "Response behavior changed: baseline="
                               \o Itoa(ByteLen(baseline.body)) \o " bytes, test="
                               \o Itoa(ByteLen(resp.body)) \o " bytes",
                  Description |-> payloadInfo.description
                                  \o " - Response indicates potential SQL injection"])
        ELSE NULL

\* The inner loop leaving the parameter at the first failed request.
RECURSIVE SQLiPayloadsFromStopsOnFailure(_, _, _, _, _)
SQLiPayloadsFromStopsOnFailure(server, baseline, paramName, j, st) ==
    IF j > Len(sqliPayloads) THEN st
    ELSE LET req     == ParamRequest(paramName, sqliPayloads[j].payload)
             resp    == Respond(server, req)
             sent    == [st EXCEPT !.log = Append(@, Get(req))]
             finding == SQLiFinding(baseline, resp, paramName, sqliPayloads[j])
         IN  IF resp.err
             THEN sent
             ELSE IF finding # NULL
             THEN [sent EXCEPT !.vulns = Append(@, Deref(finding))]
             ELSE SQLiPayloadsFromStopsOnFailure(server, baseline, paramName, j + 1,
                                   [sent EXCEPT !.log = Append(@, Sleep100ms)])

\* The inner loop of ScanSQLi over sqliPayloads[j..] for one parameter
\* (sqli.go:105-152); st is [vulns, log].  A failed request continues with
\* the next payload, a finding breaks, anything else sleeps and goes on.
RECURSIVE SQLiPayloadsFrom(_, _, _, _, _)
SQLiPayloadsFrom(server, baseline, paramName, j, st) ==
    IF j > Len(sqliPayloads) THEN st
    ELSE LET req     == ParamRequest(paramName, sqliPayloads[j].payload)
             resp    == Respond(server, req)
             sent    == [st EXCEPT !.log = Append(@, Get(req))]
             finding == SQLiFinding(baseline, resp, paramName, sqliPayloads[j])
         IN  IF resp.err
             THEN SQLiPayloadsFrom(server, baseline, paramName, j + 1, sent)
             ELSE IF finding # NULL
             THEN [sent EXCEPT !.vulns = Append(@, Deref(finding))]
             ELSE SQLiPayloadsFrom(server, baseline, paramName, j + 1,
                                   [sent EXCEPT !.log = Append(@, Sleep100ms)])

\* The outer loop (sqli.go:102-153) over the parameters order[i..]; order is
\* the order in which range visits the map queryParams.
RECURSIVE SQLiParamsFrom(_, _, _, _)
SQLiParamsFrom(server, baseline, order, i) ==
    IF i > Len(order) THEN NoFindings
    ELSE Then(SQLiPayloadsFrom(server, baseline, order[i], 1, NoFindings),
              SQLiParamsFrom(server, baseline, order, i + 1))

\* testPathInjection over pathPayloads[j..] (sqli.go:199-225)
RECURSIVE PathPayloadsFrom(_, _, _, _)
PathPayloadsFrom(server, basePath, j, st) ==
    IF j > Len(pathPayloads) THEN st
    ELSE LET payload  == pathPayloads[j]
             testPath == basePath \o "/" \o PathEscape(payload)
             req      == PathRequest(testPath)
             resp     == Respond(server, req)
             sent     == [st EXCEPT !.log = Append(@, Get(req))]
             sqlError == detectSQLError(ToLower(resp.body))
         IN  IF resp.err
             THEN PathPayloadsFrom(server, basePath, j + 1, sent)
             ELSE IF sqlError # ""
             THEN [sent EXCEPT !.vulns = Append(@,
                      [Type |-> "sqli", Severity |-> "critical", Location |-> "URL Path",
                       Payload |-> payload,
                       Evidence |-> "SQL error detected: " \o sqlError,
                       Description |-> "SQL injection in URL path"])]
             ELSE PathPayloadsFrom(server, basePath, j + 1,
                                   [sent EXCEPT !.log = Append(@, Sleep100ms)])

\* sqli.go:192-226
testPathInjection(server, parsedURL) ==
    PathPayloadsFrom(server, parsedURL.Path, 1, NoFindings)

\* The names of a sequence of parameters.
ParamNames(params) == {params[i].name : i \in DOMAIN params}

\* The path check on every URL.
HasPathSegmentsAlways(parsedURL) == TRUE

\* sqli.go:156
HasPathSegments(parsedURL) == ByteLen(parsedURL.Path) > 1

\* ScanSQLi, sqli.go:56-163.  parsedURL is what url.Parse makes of
\* target.URL: parseOK, Path and Query (name -> value).
ScanSQLi(parsedURL, order, server) ==
    IF ~parsedURL.parseOK
    THEN [vulns |-> NULL, err |-> Ptr("failed to parse URL"), log |-> <<>>]
    ELSE LET baseline == Respond(server, BaselineRequest)
             st0 == [vulns |-> <<>>, log |-> <<Get(BaselineRequest)>>]
         IN  IF baseline.err
             THEN [vulns |-> NULL, err |-> Ptr("failed to get baseline response"),
                   log |-> st0.log]
             ELSE LET st1 == Then(st0, SQLiParamsFrom(server, baseline, order, 1))
                      st2 == IF HasPathSegments(parsedURL)
                             THEN Then(st1, testPathInjection(server, parsedURL))
                             ELSE st1
                  IN  [vulns |-> Ptr(st2.vulns), err |-> NULL, log |-> st2.log]

\* xss.go:130-156: the finding a response gives for a parameter and a
\* payload, NULL when it gives none.
XSSFinding(resp, paramName, payloadInfo) ==
    LET bodyStr == ToLower(resp.body)
    IN  IF Contains(bodyStr, payloadInfo.pattern)
        THEN Ptr([Type |-> "xss", Severity |-> "high",
                  Location |-> "Parameter: " \o paramName,
                  Payload |-> payloadInfo.payload,
                  Evidence |-> "Payload reflected unescaped in response",
                  Description |-> payloadInfo.description
                      \o " - Payload found in response without proper encoding"])
        ELSE IF checkPartialReflection(bodyStr, payloadInfo.payload)
        THEN Ptr([Type |-> "xss", Severity |-> "medium",
                  Location |-> "Parameter: " \o paramName,
                  Payload |-> payloadInfo.payload,
                  Evidence |-> "Payload partially reflected, may be bypassable",
                  Description |-> payloadInfo.description
                      \o " - Input reflected with partial encoding"])
        ELSE NULL

\* The inner loop without its breaks: a finding is recorded and the next
\* payload is tried all the same.
RECURSIVE XSSPayloadsFromKeepsGoing(_, _, _, _)
XSSPayloadsFromKeepsGoing(server, paramName, j, st) ==
    IF j > Len(xssPayloads) THEN st
    ELSE LET req     == ParamRequest(paramName, xssPayloads[j].payload)
             resp    == Respond(server, req)
             sent    == [st EXCEPT !.log = Append(@, Get(req))]
             finding == XSSFinding(resp, paramName, xssPayloads[j])
         IN  IF resp.err
             THEN XSSPayloadsFromKeepsGoing(server, paramName, j + 1, sent)
             ELSE IF finding # NULL
             THEN XSSPayloadsFromKeepsGoing(server, paramName, j + 1,
                      [sent EXCEPT !.vulns = Append(@, Deref(finding)),
                                   !.log = Append(@, Sleep100ms)])
             ELSE XSSPayloadsFromKeepsGoing(server, paramName, j + 1,
                                            [sent EXCEPT !.log = Append(@, Sleep100ms)])

\* The inner loop of ScanXSS over xssPayloads[j..] for one parameter
\* (xss.go:114-160).
RECURSIVE XSSPayloadsFrom(_, _, _, _)
XSSPayloadsFrom(server, paramName, j, st) ==
    IF j > Len(xssPayloads) THEN st
    ELSE LET req     == ParamRequest(paramName, xssPayloads[j].payload)
             resp    == Respond(server, req)
             sent    == [st EXCEPT !.log = Append(@, Get(req))]
             finding == XSSFinding(resp, paramName, xssPayloads[j])
         IN  IF resp.err
             THEN XSSPayloadsFrom(server, paramName, j + 1, sent)
             ELSE IF finding # NULL
             THEN [sent EXCEPT !.vulns = Append(@, Deref(finding))]
             ELSE XSSPayloadsFrom(server, paramName, j + 1,
                                  [sent EXCEPT !.log = Append(@, Sleep100ms)])

\* The outer loop (xss.go:111-161)
RECURSIVE XSSParamsFrom(_, _, _)
XSSParamsFrom(server, order, i) ==
    IF i > Len(order) THEN NoFindings
    ELSE Then(XSSPayloadsFrom(server, order[i], 1, NoFindings),
              XSSParamsFrom(server, order, i + 1))

\* xss.go:192-240
testDOMXSS(server) ==
    LET req  == FragmentRequest("#<script>alert('XSS')</script>")
        resp == Respond(server, req)
        sent == [NoFindings EXCEPT !.log = Append(@, Get(req))]
        dangerousPattern == FirstPatternFrom(ToLower(resp.body), dangerousPatterns, 1)
    IN  IF resp.err THEN sent
        ELSE IF dangerousPattern # ""
        THEN [sent EXCEPT !.vulns = Append(@,
                 [Type |-> "xss", Severity |-> "medium",
                  Location |-> "DOM (client-side JavaScript)",
                  Payload |-> "DOM manipulation pattern detected",
                  Evidence |-> "Found dangerous pattern: " \o dangerousPattern,
                  Description |->
                      "Page uses potentially unsafe DOM manipulation that could lead to XSS"])]
        ELSE sent

\* ScanXSS, xss.go:74-169
ScanXSS(parsedURL, order, server) ==
    IF ~parsedURL.parseOK
    THEN [vulns |-> NULL, err |-> Ptr("failed to parse URL"), log |-> <<>>]
    ELSE LET st1 == XSSParamsFrom(server, order, 1)
             st2 == Then(st1, testDOMXSS(server))
         IN  [vulns |-> Ptr(st2.vulns), err |-> NULL, log |-> st2.log]

\* The keys of a map in the order range visits them: priority lists every
\* name once, and the keys are visited in that order.
RangeOrder(keys, priority) ==
    LET IsKey(n) == n \in keys
    IN  SelectSeq(priority, IsKey)

\* url.Values from the fallback list.
DefaultQuery(params) ==
    [n \in ParamNames(params) |->
        params[CHOOSE i \in DOMAIN params : params[i].name = n].value]

\* sqli.go:67-80 and xss.go:85-100: the parameters to test.
QueryParams(parsedURL, defaults) ==
    IF DOMAIN parsedURL.Query = {} THEN DefaultQuery(defaults) ELSE parsedURL.Query

\* The two analyzers on a target: fn is "sqli" or "xss", priority fixes the
\* iteration order of the parameter map.
ScanInjection(fn, parsedURL, priority, server) ==
    IF fn = "sqli"
    THEN ScanSQLi(parsedURL,
                  RangeOrder(DOMAIN QueryParams(parsedURL, sqliDefaultParams), priority),
                  server)
    ELSE ScanXSS(parsedURL,
                 RangeOrder(DOMAIN QueryParams(parsedURL, xssDefaultParams), priority),
                 server)

(***************************************************************************)
(* SpecInject: ScanSQLi and ScanXSS on bounded targets.                    *)
(***************************************************************************)
\* Go visits the keys of a map in an unspecified order that changes from run
\* to run: every sequence that lists each key once.
RECURSIVE Orders(_)
Orders(keys) ==
    IF keys = {} THEN {<<>>}
    ELSE UNION {{<<k>> \o o : o \in Orders(keys \ {k})} : k \in keys}

\* url.Parse of an unparsable URL, of http://h?q=x, http://h/?id=1,
\* http://h/item?id=1&q=x and http://h/item.
ParsedURLs ==
    {[parseOK |-> FALSE, Path |-> "", Query |-> <<>>],
     [parseOK |-> TRUE, Path |-> "", Query |-> [n \in {"q"} |-> "x"]],
     [parseOK |-> TRUE, Path |-> "/", Query |-> [n \in {"id"} |-> "1"]],
     [parseOK |-> TRUE, Path |-> "/item", Query |-> [n \in {"id", "q"} |-> IF n = "id" THEN "1" ELSE "x"]],
     [parseOK |-> TRUE, Path |-> "/item", Query |-> <<>>]}

\* A page of ten bytes in eight characters (U+FF8A takes three), and one
\* whose script evaluates the fragment.  TLC keeps of a character of a stored
\* state the low byte only, which the characters from U+FF80 on survive.
PlainPage == "<p>ﾊ</p>"
ScriptPage == "<a onclick=Eval(h)>"

HandlerMaps ==
    {[n \in {"id", "q"} |-> IF n = "id" THEN a ELSE b] :
        a \in Handlers, b \in {"static", "down", "reflect", "encode", "sqlerror"}}

\* The handler map tried on a URL without a query, where a run tests every
\* fallback name, in any order.
FewHandlerMaps ==
    {h \in HandlerMaps : h["id"] = "sqlerror" /\ h["q"] = "encode"}

Servers ==
    [up : BOOLEAN, page : {PlainPage}, handler : HandlerMaps, pathHandler : PathHandlers]
    \cup [up : BOOLEAN, page : {ScriptPage}, handler : HandlerMaps, pathHandler : {"static"}]

\* The keys of queryParams in a run of fn on parsedURL (no map is built when
\* the URL does not parse).
KeysOf(fn, parsedURL) ==
    IF ~parsedURL.parseOK THEN {}
    ELSE DOMAIN QueryParams(parsedURL, IF fn = "sqli" THEN sqliDefaultParams
                                       ELSE xssDefaultParams)

ServersFor(fn, parsedURL) ==
    {s \in Servers :
        /\ fn = "sqli" => s.page = PlainPage
        /\ fn = "xss" => s.pathHandler = "static"
        /\ (parsedURL.parseOK /\ DOMAIN parsedURL.Query = {}) =>
               /\ s.handler \in FewHandlerMaps
               /\ s.up
               /\ s.pathHandler = "sqlerror"}

\* A URL without a query is tried with ScanSQLi, whose six fallback names
\* have 720 orders; the eight of ScanXSS have 40320.
URLsFor(fn) ==
    {u \in ParsedURLs : (fn = "xss" /\ u.parseOK) => DOMAIN u.Query # {}}

InputsOf(fn) ==
    UNION {{[fn |-> fn, parsedURL |-> u, priority |-> p, server |-> s] :
               p \in Orders(KeysOf(fn, u)), s \in ServersFor(fn, u)} :
           u \in URLsFor(fn)}

InjectInputs == InputsOf("sqli") \cup InputsOf("xss")

InitInject ==
    /\ ScanUnused
    /\ fpc = "in"
    /\ input \in InjectInputs
    /\ output = NULL

CallScanSQLi ==
    /\ fpc = "in"
    /\ input.fn = "sqli"
    /\ output' = ScanInjection("sqli", input.parsedURL, input.priority, input.server)
    /\ fpc' = "out"
    /\ UNCHANGED <<scanVars, input>>

CallScanXSS ==
    /\ fpc = "in"
    /\ input.fn = "xss"
    /\ output' = ScanInjection("xss", input.parsedURL, input.priority, input.server)
    /\ fpc' = "out"
    /\ UNCHANGED <<scanVars, input>>

SpecInject == InitInject /\ [][CallScanSQLi \/ CallScanXSS]_vars

(***************************************************************************)
(* SpecWeak: isWeakHeader on Content-Security-Policy values.               *)
(***************************************************************************)
\* Source expressions of a directive: keywords, the wildcard bare, quoted,
\* and inside a host, and the unsafe keywords in either case.
CspSources ==
    {"'self'", "'none'", "*", "'*'", "https://*.cdn.example",
     "'unsafe-inline'", "'UNSAFE-EVAL'", "'Unsafe-Inline' 'self'"}

\* Policies of no, one or two directives.
CspValues ==
    {""}
    \cup {"default-src " \o a : a \in CspSources}
    \cup {"default-src " \o a \o "; img-src " \o b : a, b \in CspSources}

WeakInputs == [name : {"Content-Security-Policy"}, value : CspValues]

InitWeak ==
    /\ ScanUnused
    /\ fpc = "in"
    /\ input \in WeakInputs
    /\ output = NULL

CallIsWeakHeader ==
    /\ fpc = "in"
    /\ output' = isWeakHeader(input.name, input.value)
    /\ fpc' = "out"
    /\ UNCHANGED <<scanVars, input>>

SpecWeak == InitWeak /\ [][CallIsWeakHeader]_vars

(***************************************************************************)
(* Properties.                                                             *)
(***************************************************************************)
\* Some vulnerability of either list of r has the severity.
AnyVuln(r, severity) ==
    \E list \in {Elems(r.SQLiResults), Elems(r.XSSResults)} :
        \E i \in DOMAIN list : list[i].Severity = severity

TLSInsecure(r) == r.TLSResults # NULL /\ ~Deref(r.TLSResults).IsSecure

HeadersPoor(r) == r.HeaderResults # NULL /\ Deref(r.HeaderResults).SecurityScore < 50

\* C6: CalculateRiskLevel is a strict precedence cascade: CRITICAL iff some
\* SQLi or XSS vulnerability is critical; otherwise HIGH iff some vulnerability
\* is high or TLSResults is present and insecure; otherwise MEDIUM iff some
\* vulnerability is medium or HeaderResults is present with a score below 50;
\* otherwise LOW -- whatever the mix and the counts.
C6_RiskCascade ==
    fpc = "out" /\ input \in RiskInputs =>
        LET crit == AnyVuln(input, "critical")
            high == AnyVuln(input, "high") \/ TLSInsecure(input)
            med  == AnyVuln(input, "medium") \/ HeadersPoor(input)
        IN  /\ (output = "CRITICAL") <=> crit
            /\ ~crit => ((output = "HIGH") <=> high)
            /\ ~crit /\ ~high => ((output = "MEDIUM") <=> med)
            /\ ~crit /\ ~high /\ ~med => output = "LOW"
            /\ output \in {"CRITICAL", "HIGH", "MEDIUM", "LOW"}

\* One critical finding among more high and medium ones: CRITICAL returned.
C6_Witness ==
    /\ fpc = "out"
    /\ input \in RiskInputs
    /\ CountSeverity(Elems(input.SQLiResults), 1, "critical")
         + CountSeverity(Elems(input.XSSResults), 1, "critical") = 1
    /\ CountSeverity(Elems(input.SQLiResults), 1, "high") = 2
    /\ AnyVuln(input, "medium")
    /\ TLSInsecure(input)
    /\ HeadersPoor(input)
    /\ output = "CRITICAL"

\* Number of entries of list that are about the header name.
RECURSIVE CountName(_, _, _)
CountName(list, i, name) ==
    IF i > Len(list) THEN 0
    ELSE (IF list[i].Name = name THEN 1 ELSE 0) + CountName(list, i + 1, name)

\* C9: the three lists of the HeaderScan that ScanHeaders returns partition
\* the seven defined headers -- each defined header is in exactly one list,
\* once, with the Status of that list -- so the lengths sum to 7.
C9_Partition ==
    fpc = "out" /\ input \in Probes /\ output.err = NULL =>
        LET scan == Deref(output.scan)
            lists == <<scan.MissingHeaders, scan.WeakHeaders, scan.PresentHeaders>>
            status == <<"missing", "weak", "present">>
        IN  /\ Cardinality(HeaderNames) = 7
            /\ \A n \in HeaderNames :
                   CountName(lists[1], 1, n) + CountName(lists[2], 1, n)
                       + CountName(lists[3], 1, n) = 1
            /\ \A k \in 1..3 : \A i \in 1..Len(lists[k]) :
                   /\ lists[k][i].Name \in HeaderNames
                   /\ lists[k][i].Status = status[k]
            /\ Len(lists[1]) + Len(lists[2]) + Len(lists[3]) = 7

\* A response that puts headers in each of the three lists.
C9_Witness ==
    /\ fpc = "out"
    /\ input \in Probes
    /\ output.err = NULL
    /\ Len(Deref(output.scan).MissingHeaders) >= 2
    /\ Len(Deref(output.scan).WeakHeaders) >= 2
    /\ Len(Deref(output.scan).PresentHeaders) >= 2

\* The values the server sent for the header n, whose name counts in any
\* case, in the order of the lines.
RECURSIVE SentFrom(_, _, _)
SentFrom(wire, i, n) ==
    IF i > Len(wire) THEN <<>>
    ELSE (IF ToLower(wire[i].name) = ToLower(n) THEN <<TrimBlank(wire[i].value)>> ELSE <<>>)
         \o SentFrom(wire, i + 1, n)

Sent(wire, n) == SentFrom(wire, 1, n)

\* The defined headers that the server sent with a value that is not weak.
StrongSent(wire) ==
    {n \in HeaderNames :
        Sent(wire, n) # <<>> /\ ~isWeakHeader(n, Join(Sent(wire, n), "; "))}

\* C10: SecurityScore is floor(100*k/7) for k the number of defined headers
\* that are present and not weak (so 0 for k=0, 28 for k=2, 57 for k=4 and
\* 100 for k=7), and lies in 0..100.
C10_ScoreByStrongCount ==
    fpc = "out" /\ input \in Probes /\ output.err = NULL =>
        LET k == Cardinality(StrongSent(input.wire))
            score == Deref(output.scan).SecurityScore
        IN  /\ score = (100 * k) \div 7
            /\ score \in 0..100
            /\ k = 7 => score = 100


\* The state in which "return result, nil" (html.go:920) executes.
AtReturn == opc = "finalProgress"

\* Number of entries of the error list equal to e.
Occurrences(e, errors) == Cardinality({i \in DOMAIN errors : errors[i] = e})

OutputFields == {Field(u) : u \in Units}

\* What worker u wrote is in result: its output in its field, or its error
\* once in Errors.
Kept(u) ==
    IF ret[u] = "ok" THEN result[Field(u)] = Ptr(Out(u))
    ELSE Occurrences(ErrOf(u), result.Errors) = 1

\* C1: when the deadline expires before every launched unit has finished and
\* the orchestrator takes the timeout case, the returned ScanResult holds every
\* output and every error that a unit had written under the lock before
\* finalization, and exactly one "scan timeout exceeded" error.
C1_TimeoutKeepsWritten ==
    AtReturn /\ branch = "timeout" /\ ~hist.onTime =>
        /\ \A u \in hist.written : Kept(u)
        /\ Occurrences(TimeoutErr, result.Errors) = 1

\* C2: RunSecurityScan always terminates, with EndTime and RiskLevel set, even
\* when a unit never finishes: once all units are done or the deadline has
\* expired it goes on to return.
C2_Terminates ==
    /\ <>(opc = "returned" /\ result.EndTime = "set" /\ result.RiskLevel # "")
    /\ ((~Launching /\ (AllFinished \/ ctxDone)) ~> (opc = "returned"))

\* The outputs and errors a ScanResult has collected.
Collected(r) == [f \in OutputFields \cup {"Errors"} |-> r[f]]

\* C3: every step that changes what the ScanResult has collected (an output,
\* the error list) or the completed-unit counter is a step of the goroutine
\* that holds the mutex -- the orchestrator's append of the timeout error
\* included.
C3_MutationsUnderMutex ==
    [][(Collected(result') # Collected(result) \/ completedScans' # completedScans)
          => mu \in Units /\ upc'[mu] # upc[mu] /\ opc' = opc]_vars

C4_Always ==
    /\ \A u \in Units :
          /\ ret[u] = "err" => result[Field(u)] = NULL
          /\ Occurrences(ErrOf(u), result.Errors) <= 1
          /\ ret[u] = "ok" /\ HasWritten(u) => result[Field(u)] = Ptr(Out(u))
    /\ AtReturn /\ branch = "done" => \A u \in Launched : Kept(u)
    /\ opc = "returned" => Deref(returned).result # NULL /\ Deref(returned).err = NULL

\* The step in which worker u writes to result: the assignment of its
\* output, or the assignment of what append has built.
Writes(u) ==
    IF ret[u] = "err" THEN upc[u] = "cs1b" /\ upc'[u] = "progress"
    ELSE upc[u] = "cs1" /\ upc'[u] = "cs1b"

C4_Step ==
    \A u \in Units :
        Writes(u) =>
            IF ret[u] = "err"
            THEN /\ Occurrences(ErrOf(u), result'.Errors) = 1
                 /\ Occurrences(ErrOf(u), result.Errors) = 0
                 /\ \A f \in OutputFields : result'[f] = result[f]
            ELSE /\ result'[Field(u)] = Ptr(Out(u))
                 /\ \A f \in (OutputFields \cup {"Errors"}) \ {Field(u)} : result'[f] = result[f]

\* C4: a launched analyzer that returns an error gets exactly one entry
\* appended to Errors and its result field stays nil; the other units are
\* untouched by it and record their own output or error; RunSecurityScan
\* returns a non-nil result and a nil error.
C4_FailureIsolated == []C4_Always /\ [][C4_Step]_vars

\* At return one analyzer has failed and another has succeeded.
C4_Witness ==
    /\ AtReturn
    /\ \E u, v \in Units :
          /\ ret[u] = "err" /\ Occurrences(ErrOf(u), result.Errors) = 1 /\ result[Field(u)] = NULL
          /\ ret[v] = "ok" /\ result[Field(v)] = Ptr(Out(v))

AllPopulated == \A u \in Units : result[Field(u)] # NULL

\* C5: all five categories enabled, every probe succeeding and all
\* units finished before the deadline: Errors is empty and the five fields are
\* populated.
C5_AllOnTime ==
    AtReturn /\ (\A u \in Units : u \in Launched /\ ret[u] = "ok")
             /\ (~ctxDone \/ hist.onTime) =>
        result.Errors = <<>> /\ AllPopulated

\* C7: EndTime and RiskLevel are each written once, after the select has
\* decided, and the RiskLevel written is the cascade applied to the findings
\* the ScanResult holds at the moment of the write.
C7_FinalizedOnce ==
    [][/\ nEndTime' # nEndTime => nEndTime = 0 /\ branch # "none"
       /\ nRiskLevel' # nRiskLevel =>
             /\ nRiskLevel = 0 /\ branch # "none"
             /\ result'.RiskLevel = CalculateRiskLevel(result)]_vars

\* The launched analyzers that returned an error.
Failed == {u \in Launched : ret[u] = "err"}

\* The launched analyzers that had not finished when the deadline expired.
Late == hist.late \cap Launched

\* C8: at return Errors holds exactly one entry for each launched
\* analyzer that failed or had not finished by the deadline, and nothing else;
\* it is empty iff every launched analyzer succeeded before the deadline.
C8_OnePerFailedOrLate ==
    AtReturn =>
        /\ Len(result.Errors) = Cardinality(Failed \cup Late)
        /\ \A u \in Failed : Occurrences(ErrOf(u), result.Errors) = 1
        /\ (result.Errors = <<>>) <=> (Failed \cup Late = {})

\* The names of the entries of a header list.
NamesIn(list) == {list[i].Name : i \in DOMAIN list}

\* C11: ScanHeaders puts a defined header in MissingHeaders if and only if
\* the server's response does not carry it; a response carrying all seven
\* defined headers with strong values yields 0 missing, 7 present, score 100.
C11_MissingIffNotSent ==
    fpc = "out" /\ input \in Probes /\ output.err = NULL =>
        LET scan == Deref(output.scan)
        IN  /\ \A n \in HeaderNames :
                  (n \in NamesIn(scan.MissingHeaders)) <=> (Sent(input.wire, n) = <<>>)
            /\ StrongSent(input.wire) = HeaderNames =>
                  /\ Len(scan.MissingHeaders) = 0
                  /\ Len(scan.PresentHeaders) = 7
                  /\ scan.SecurityScore = 100

\* C12: the Score of the TLSScan that ScanTLS returns lies in 0..100 for
\* every certificate state, negotiated version, negotiated cipher and probe
\* outcomes; a handshake with TLS 1.0, a CBC-mode cipher of the weak set and
\* an expired leaf certificate gives IsSecure = FALSE and Score = 0.
C12_ScoreInRange ==
    fpc = "out" /\ input \in TLSInputs /\ output.err = NULL =>
        LET scan  == Deref(output.scan)
            state == input.conn.state
        IN  /\ scan.Score \in 0..100
            /\ (/\ input.tgt.Protocol = "https"
                /\ state.Version = VersionTLS10
                /\ state.CipherSuite \in {CipherSuiteId("TLS_RSA_WITH_AES_128_CBC_SHA"),
                                          CipherSuiteId("TLS_RSA_WITH_AES_256_CBC_SHA"),
                                          CipherSuiteId("TLS_RSA_WITH_3DES_EDE_CBC_SHA"),
                                          CipherSuiteId("TLS_ECDHE_RSA_WITH_3DES_EDE_CBC_SHA")}
                /\ Len(state.PeerCertificates) > 0
                /\ state.PeerCertificates[1].untilHours < 0)
               => ~scan.IsSecure /\ scan.Score = 0

\* TLS 1.0, TLS_RSA_WITH_AES_128_CBC_SHA, an expired certificate and all
\* three probes succeeding: the deductions add up to 130 and the score is 0.
C12_Witness ==
    /\ fpc = "out"
    /\ input \in TLSInputs
    /\ input.tgt.Protocol = "https"
    /\ input.conn.dialOK
    /\ input.conn.state.Version = VersionTLS10
    /\ input.conn.state.CipherSuite = CipherSuiteId("TLS_RSA_WITH_AES_128_CBC_SHA")
    /\ input.conn.state.PeerCertificates = <<[untilHours |-> -240]>>
    /\ input.conn.probes = [sslv3 |-> TRUE, tls10 |-> TRUE, weak |-> TRUE]
    /\ output.err = NULL
    /\ Deref(output.scan).Score = 0
    /\ ~Deref(output.scan).IsSecure
    /\ Len(Deref(output.scan).Vulnerabilities) = 6

\* The parameters a run tests, and the payloads of its list in order.
TestedParams(in) ==
    DOMAIN QueryParams(in.parsedURL,
                       IF in.fn = "sqli" THEN sqliDefaultParams ELSE xssDefaultParams)

PayloadList(fn) ==
    IF fn = "sqli" THEN [j \in DOMAIN sqliPayloads |-> sqliPayloads[j].payload]
    ELSE [j \in DOMAIN xssPayloads |-> xssPayloads[j].payload]

\* The payloads requested for parameter p, in the order of the requests.
RequestedFor(log, p) ==
    LET ForP(e) == e.op = "GET" /\ Deref(e.req).kind = "param" /\ Deref(e.req).name = p
        gets == SelectSeq(log, ForP)
    IN  [k \in DOMAIN gets |-> Deref(gets[k].req).value]

\* The findings located at loc.
FindingsAt(vulns, loc) ==
    LET AtLoc(v) == v.Location = loc
    IN  SelectSeq(vulns, AtLoc)

\* The response to payload j for parameter p matches: the analyzer's tests
\* find something in it.
Matches(in, p, j) ==
    LET resp == Respond(in.server, ParamRequest(p, PayloadList(in.fn)[j]))
        base == Respond(in.server, BaselineRequest)
    IN  /\ ~resp.err
        /\ IF in.fn = "sqli"
           THEN \/ detectSQLError(ToLower(resp.body)) # ""
                \/ detectBehaviorChange(base.StatusCode, resp.StatusCode,
                                        ByteLen(base.body), ByteLen(resp.body))
           ELSE \/ Contains(ToLower(resp.body), xssPayloads[j].pattern)
                \/ checkPartialReflection(ToLower(resp.body), xssPayloads[j].payload)

\* C13: in ScanSQLi and in ScanXSS, for every tested parameter at most one
\* Vulnerability located at that parameter is emitted per run: the payloads
\* are requested in the order of the list, the finding is the one for the
\* first payload whose response matches, and once a finding is recorded no
\* later payload is requested for that parameter.
C13_FirstMatchOnly ==
    fpc = "out" /\ input \in InjectInputs /\ output.err = NULL =>
        \A p \in TestedParams(input) :
            LET found     == FindingsAt(Deref(output.vulns), "Parameter: " \o p)
                requested == RequestedFor(output.log, p)
                payloads  == PayloadList(input.fn)
                matching  == {j \in DOMAIN payloads : Matches(input, p, j)}
            IN  /\ Len(found) <= 1
                /\ Len(requested) <= Len(payloads)
                /\ requested = SubSeq(payloads, 1, Len(requested))
                /\ IF matching = {}
                   THEN found = <<>> /\ requested = payloads
                   ELSE LET first == CHOOSE j \in matching : \A k \in matching : j <= k
                        IN  /\ Len(found) = 1
                            /\ found[1].Payload = payloads[first]
                            /\ Len(requested) = first

\* ScanSQLi on http://h/item?id=1&q=x where a quote in id makes the page the
\* database error "You have an error in your SQL syntax" and q is ignored:
\* one critical finding for id after its first request, the ten payloads
\* requested for q and no finding for it.
C13_Witness ==
    /\ fpc = "out"
    /\ input \in InjectInputs
    /\ input.fn = "sqli"
    /\ DOMAIN input.parsedURL.Query = {"id", "q"}
    /\ input.server.handler["id"] = "sqlerror"
    /\ input.server.handler["q"] = "static"
    /\ output.err = NULL
    /\ Len(FindingsAt(Deref(output.vulns), "Parameter: id")) = 1
    /\ FindingsAt(Deref(output.vulns), "Parameter: id")[1].Severity = "critical"
    /\ RequestedFor(output.log, "id") = <<"'">>
    /\ Len(RequestedFor(output.log, "q")) = 10
    /\ FindingsAt(Deref(output.vulns), "Parameter: q") = <<>>

\* The findings ScanSQLi located at parameter p.
SQLiFound(p) == FindingsAt(Deref(output.vulns), "Parameter: " \o p)

\* Some database-error signature occurs in the lowercased body.
HasSignature(body) ==
    \E k \in DOMAIN sqlErrorPatterns : Contains(ToLower(body), sqlErrorPatterns[k])

\* The length differs from the baseline's by more than 10% of the baseline's.
LengthOff(baseLen, testLen) ==
    LET diff == IF testLen >= baseLen THEN testLen - baseLen ELSE baseLen - testLen
    IN  10 * diff > baseLen

\* C14: for each parameter/payload response ScanSQLi records a critical
\* finding if the lowercased body contains a database-error signature;
\* otherwise a high finding if and only if the status differs from the
\* baseline's or the body length differs from the baseline's by more than 10%
\* in either direction (exactly 10% with the same status: nothing; 300% longer
\* with the same status: flagged).  In a run, the parameter's finding is the
\* one of the last response received for it, and every earlier response
\* received for it gave none.
C14_Classification ==
    fpc = "out" /\ input \in InjectInputs /\ input.fn = "sqli" /\ output.err = NULL =>
        LET base == Respond(input.server, BaselineRequest)
        IN  \A p \in TestedParams(input) :
                LET requested == RequestedFor(output.log, p)
                    Resp(k)   == Respond(input.server, ParamRequest(p, requested[k]))
                    received  == {k \in DOMAIN requested : ~Resp(k).err}
                    Sig(k)    == HasSignature(Resp(k).body)
                    Changed(k) == \/ Resp(k).StatusCode # base.StatusCode
                                  \/ LengthOff(ByteLen(base.body), ByteLen(Resp(k).body))
                    Flagged(k, severity) ==
                        /\ k = Len(requested)
                        /\ Len(SQLiFound(p)) = 1
                        /\ SQLiFound(p)[1].Severity = severity
                        /\ SQLiFound(p)[1].Payload = requested[k]
                IN  /\ \A k \in received :
                          /\ Sig(k) => Flagged(k, "critical")
                          /\ ~Sig(k) => (Flagged(k, "high") <=> Changed(k))
                          /\ ~Sig(k) /\ ~Changed(k) => ~Flagged(k, "critical")
                    /\ SQLiFound(p) # <<>> => Len(requested) \in received

\* ScanSQLi on http://h/item?id=1&q=x with a page of ten bytes.  q is
\* reflected: the first payload's page is one byte longer (exactly 10%) and
\* gives nothing, the second's is eleven bytes longer and gives a high
\* finding.  id with UNION gets a page 300% longer, same status: the five
\* payloads before give nothing, the sixth a high finding.
C14_Witness ==
    /\ fpc = "out"
    /\ input \in InjectInputs
    /\ input.fn = "sqli"
    /\ DOMAIN input.parsedURL.Query = {"id", "q"}
    /\ input.server.page = PlainPage
    /\ ByteLen(PlainPage) = 10
    /\ input.server.handler["id"] = "union"
    /\ input.server.handler["q"] = "reflect"
    /\ output.err = NULL
    /\ Len(SQLiFound("q")) = 1
    /\ SQLiFound("q")[1].Severity = "high"
    /\ SQLiFound("q")[1].Payload = "' OR '1'='1"
    /\ Len(SQLiFound("id")) = 1
    /\ SQLiFound("id")[1].Severity = "high"
    /\ SQLiFound("id")[1].Payload = "' UNION SELECT NULL--"
    /\ Len(RequestedFor(output.log, "id")) = 6

\* The findings ScanXSS located at parameter p.
XSSFound(p) == FindingsAt(Deref(output.vulns), "Parameter: " \o p)

\* The target writes the value of p into the page as it is, or only in
\* entity-encoded form.
ReflectsVerbatim(server, p, value) ==
    LET resp == Respond(server, ParamRequest(p, value))
    IN  ~resp.err /\ resp.body = server.page \o value

ReflectsEncoded(server, p, value) ==
    LET resp == Respond(server, ParamRequest(p, value))
    IN  ~resp.err /\ resp.body = server.page \o EscapeString(value) /\ EscapeString(value) # value

\* C15: for a tested parameter ScanXSS records a high finding when the
\* handler reflects <script>alert('XSS')</script> verbatim into the body, and
\* records no finding at all for that parameter when the handler returns the
\* value only in HTML-entity-encoded form.
C15_EncodedIsSafe ==
    fpc = "out" /\ input \in InjectInputs /\ input.fn = "xss" /\ output.err = NULL =>
        \A p \in TestedParams(input) :
            /\ ReflectsVerbatim(input.server, p, xssPayloads[1].payload) =>
                   /\ Len(XSSFound(p)) = 1
                   /\ XSSFound(p)[1].Severity = "high"
                   /\ XSSFound(p)[1].Payload = "<script>alert('XSS')</script>"
            /\ (\A j \in DOMAIN xssPayloads :
                    ReflectsEncoded(input.server, p, xssPayloads[j].payload))
                   => XSSFound(p) = <<>>

\* The k-th step of a trace is a request that carries a payload (in a
\* parameter or in the path).
IsPayloadGet(log, k) ==
    log[k].op = "GET" /\ Deref(log[k].req).kind \in {"param", "path"}

\* C19: in ScanSQLi and ScanXSS, between any two consecutive payload requests
\* there is one 100 ms delay step: no payload request is issued immediately
\* after the previous one, also when the previous request failed or ended a
\* parameter with a finding.
C19_DelayBetweenRequests ==
    fpc = "out" /\ input \in InjectInputs /\ output.err = NULL =>
        LET log == output.log
        IN  \A i \in DOMAIN log :
                (IsPayloadGet(log, i) /\ \E k \in DOMAIN log : k > i /\ IsPayloadGet(log, k))
                    => /\ log[i + 1] = Sleep100ms
                       /\ IsPayloadGet(log, i + 2)

\* The last segment of every path request of a trace, in order.
PathRequested(log) ==
    LET IsPath(e) == e.op = "GET" /\ Deref(e.req).kind = "path"
        gets == SelectSeq(log, IsPath)
    IN  [k \in DOMAIN gets |-> Deref(gets[k].req).value]

\* The two path requests of a run on a URL with path base.
PathProbes(base) == <<base \o "/%27", base \o "/%27%20OR%20%271%27=%271">>

\* What the path check does once it runs: the two probes in order after
\* every parameter request, one critical 'URL Path' finding for the first
\* response with a signature, and nothing requested after it.
PathCheckRuns(in, out) ==
    LET log       == out.log
        requested == PathRequested(log)
        probes    == PathProbes(in.parsedURL.Path)
        found     == FindingsAt(Deref(out.vulns), "URL Path")
        Resp(j)   == Respond(in.server, PathRequest(probes[j]))
        leaking   == {j \in DOMAIN probes : ~Resp(j).err /\ HasSignature(Resp(j).body)}
    IN  /\ Len(requested) >= 1
        /\ Len(requested) <= Len(probes)
        /\ requested = SubSeq(probes, 1, Len(requested))
        /\ \A i, k \in DOMAIN log :
               (log[i].op = "GET" /\ Deref(log[i].req).kind = "param"
                /\ log[k].op = "GET" /\ Deref(log[k].req).kind = "path") => i < k
        /\ Len(found) <= 1
        /\ IF leaking = {}
           THEN found = <<>> /\ requested = probes
           ELSE LET first == CHOOSE j \in leaking : \A k \in leaking : j <= k
                IN  /\ Len(found) = 1
                    /\ found[1].Severity = "critical"
                    /\ found[1].Payload = pathPayloads[first]
                    /\ Len(requested) = first

\* C20, as stated: after the parameter loop ScanSQLi runs the path check for
\* every target URL, whatever its query parameters and the parameter
\* findings: the two path payloads in order as an extra path segment, one
\* critical 'URL Path' finding for the first response with a signature, then
\* it stops.
C20_PathCheckAlways ==
    fpc = "out" /\ input \in InjectInputs /\ input.fn = "sqli" /\ output.err = NULL =>
        PathCheckRuns(input, output)

\* C20, amended: ScanSQLi runs the path check exactly when the URL's path is
\* longer than one byte (so not for an empty path or "/"), whatever its query
\* parameters and the parameter findings; then it is as stated.  Otherwise no
\* path request is sent and there is no 'URL Path' finding.
C20_PathCheckOnPaths ==
    fpc = "out" /\ input \in InjectInputs /\ input.fn = "sqli" /\ output.err = NULL =>
        IF ByteLen(input.parsedURL.Path) > 1
        THEN PathCheckRuns(input, output)
        ELSE /\ PathRequested(output.log) = <<>>
             /\ FindingsAt(Deref(output.vulns), "URL Path") = <<>>

\* ScanSQLi on http://h/item?id=1&q=x where id already has a critical
\* finding and the path leaks a database error for the second probe only:
\* both probes requested, one critical 'URL Path' finding for the second.
C20_Witness ==
    /\ fpc = "out"
    /\ input \in InjectInputs
    /\ input.fn = "sqli"
    /\ input.parsedURL.Path = "/item"
    /\ DOMAIN input.parsedURL.Query = {"id", "q"}
    /\ input.server.handler["id"] = "sqlerror"
    /\ input.server.pathHandler = "orerror"
    /\ output.err = NULL
    /\ PathRequested(output.log) = PathProbes("/item")
    /\ Len(SQLiFound("id")) = 1
    /\ Len(FindingsAt(Deref(output.vulns), "URL Path")) = 1
    /\ FindingsAt(Deref(output.vulns), "URL Path")[1].Payload = "' OR '1'='1"
    /\ FindingsAt(Deref(output.vulns), "URL Path")[1].Severity = "critical"

\* The worker's critical sections.
InSection(u) == upc[u] \in {"cs1", "cs1b", "cs2"}

\* mu.Lock() calls worker u has made when it is at position pc.
LocksAt(pc) ==
    CASE pc \in {"idle", "start", "scan"} -> 0
      [] pc \in {"cs1", "cs1b", "progress"} -> 1
      [] OTHER                            -> 2

\* The process has been ended by a goroutine other than worker u.
EndedByOther(u) == Crashed /\ upc[u] # "panic"

\* C16: a worker acquires the mutex once in its life; its write and its
\* increment of the completed-unit counter are one critical section, which
\* the worker, once inside, can always leave (unless another goroutine ends
\* the process).
C16_LockedOnce ==
    \A u \in Units :
        /\ nLock[u] <= 1
        /\ upc[u] = "fin" => nLock[u] = 1
        /\ mu = u => InSection(u) /\ (ENABLED Worker(u) \/ EndedByOther(u))

\* A worker has divided by a totalScans of zero (html.go:766).
DivisionFailed == \E u \in Units : upc[u] = "panic"

\* C17, as stated: the presence of the probing binary is asked of the host
\* once, before any unit is launched; the progress denominator and the launch
\* of the port-probe unit follow that one answer, so once the launches are
\* over the denominator is the number of launched units, no percentage
\* exceeds 100 and the division by the denominator never fails.
C17_GateCheckedOnce ==
    /\ nChecks <= 1
    /\ (\E u \in Units : upc[u] # "idle") => nChecks = GateCalls
    /\ ~Launching /\ ~Crashed => totalScans = Cardinality(Launched)
    /\ \A u \in Units : pct[u] <= 100
    /\ ~DivisionFailed

\* Worker u, in a process that has not ended, is waiting neither for the
\* mutex nor for its nmap process: it has a step to take other than a
\* mu.Lock() on a mutex that another goroutine holds and than the wait in
\* CombinedOutput.
Runnable(u) ==
    /\ ~Crashed
    /\ \/ upc[u] \in {"start", "cs1", "cs1b", "cs2", "callback"}
       \/ upc[u] = "progress" /\ mu = "free"
       \/ upc[u] = "scan" /\ mu = "free" /\ (u = "Nmap" => nmap.proc # "running")
       \/ upc[u] = "scan" /\ u = "Nmap" /\ nmap.proc \in {"none", "found", "ready", "unready"}

\* C18: the orchestrator never cancels a worker: whatever the deadline, the
\* select and the orchestrator's position, a launched worker that is not
\* waiting for the mutex can take its next step; a worker's write after
\* RunSecurityScan has returned changes the returned ScanResult, and
\* RiskLevel, written once, stays as finalization computed it.
C18_StragglersRunOn ==
    /\ [](\A u \in Units : Runnable(u) => ENABLED Worker(u))
    /\ [](opc = "returned" => nRiskLevel = 1 /\ nEndTime = 1)
    /\ [][\A u \in Units :
            opc = "returned" /\ Writes(u) =>
                /\ result' = WriteResult(u)
                /\ result' # result
                /\ result'.RiskLevel = result.RiskLevel
                /\ opc' = "returned"]_vars

\* RunSecurityScan has returned on a timeout; a worker that was still running
\* at the deadline and had not written when finalization read the result has
\* since written its output and counted itself, and the RiskLevel of the
\* returned ScanResult is not the cascade of what the ScanResult now holds.
C18_Witness ==
    /\ opc = "returned"
    /\ branch = "timeout"
    /\ \E u \in Late \ hist.written :
          /\ upc[u] = "fin"
          /\ ret[u] = "ok"
          /\ result[Field(u)] = Ptr(Out(u))
    /\ completedScans >= 1
    /\ result.RiskLevel # CalculateRiskLevel(result)

\* A handshake that ScanTLS analyzes: an https target whose first dial succeeds.
Analyzed(in) == in \in TLSInputs /\ in.tgt.Protocol = "https" /\ in.conn.dialOK

\* The leaf certificate's state: "none" for an empty chain, "expired", "soon"
\* for fewer than thirty whole days left, "valid" otherwise.
LeafState(certs) ==
    IF certs = <<>> THEN "none"
    ELSE IF certs[1].untilHours < 0 THEN "expired"
    ELSE IF certs[1].untilHours < 30 * 24 THEN "soon"
    ELSE "valid"

SucceededProbes(probes) == Cardinality({f \in {"sslv3", "tls10", "weak"} : probes[f]})

WeakCipherNames ==
    {"TLS_RSA_WITH_RC4_128_SHA", "TLS_RSA_WITH_3DES_EDE_CBC_SHA",
     "TLS_RSA_WITH_AES_128_CBC_SHA", "TLS_RSA_WITH_AES_256_CBC_SHA",
     "TLS_ECDHE_RSA_WITH_3DES_EDE_CBC_SHA", "TLS_ECDHE_RSA_WITH_RC4_128_SHA"}

\* The sum D of the deductions the claim lists.
Deductions(conn) ==
    LET leaf == LeafState(conn.state.PeerCertificates)
    IN  (IF leaf = "expired" THEN 50 ELSE IF leaf = "soon" THEN 10 ELSE 0)
        + (IF conn.state.Version < VersionTLS12 THEN 30
           ELSE IF conn.state.Version = VersionTLS12 THEN 5 ELSE 0)
        + (IF CipherSuiteName(conn.state.CipherSuite) \in WeakCipherNames THEN 20 ELSE 0)
        + 10 * SucceededProbes(conn.probes)

\* C21: for an https target whose first handshake succeeds ScanTLS returns no
\* error and Score = max(0, 100 - D), D being 50 for an expired leaf
\* certificate or else 10 for one with fewer than thirty days left, plus 30
\* for a version below TLS 1.2 or else 5 for TLS 1.2, plus 20 for a weak
\* cipher, plus 10 for each probe handshake that succeeded; IsSecure is false
\* exactly when the certificate is expired, the version is below TLS 1.2, the
\* cipher is weak or a probe succeeded; an empty peer chain costs nothing.
C21_ScoreIsSumOfDeductions ==
    fpc = "out" /\ Analyzed(input) =>
        LET conn == input.conn
            leaf == LeafState(conn.state.PeerCertificates)
            D    == Deductions(conn)
        IN  /\ output.err = NULL
            /\ output.scan # NULL
            /\ Deref(output.scan).Score = (IF D > 100 THEN 0 ELSE 100 - D)
            /\ Deref(output.scan).IsSecure <=>
                   ~ \/ leaf = "expired"
                     \/ conn.state.Version < VersionTLS12
                     \/ CipherSuiteName(conn.state.CipherSuite) \in WeakCipherNames
                     \/ SucceededProbes(conn.probes) > 0
            /\ leaf = "none" =>
                   D = Deductions([conn EXCEPT !.state.PeerCertificates = <<[untilHours |-> 8760]>>])

\* TLS 1.2 with a strong cipher, a certificate with 23 hours left and two
\* probes succeeding: D = 10 + 5 + 10 + 10 and the score is 65.
C21_Witness ==
    /\ fpc = "out"
    /\ Analyzed(input)
    /\ input.conn.state.Version = VersionTLS12
    /\ input.conn.state.CipherSuite = CipherSuiteId("TLS_ECDHE_RSA_WITH_AES_128_GCM_SHA256")
    /\ input.conn.state.PeerCertificates = <<[untilHours |-> 23]>>
    /\ input.conn.probes = [sslv3 |-> FALSE, tls10 |-> TRUE, weak |-> TRUE]
    /\ Deref(output.scan).Score = 65
    /\ ~Deref(output.scan).IsSecure
    /\ Len(Deref(output.scan).Vulnerabilities) = 4

\* s has a wildcard that is not the quoted source '*': a * without a quote on
\* both sides.
HasUnquotedWildcard(s) ==
    \E i \in 1..Len(s) :
        /\ Char(s, i) = "*"
        /\ ~(i > 1 /\ i < Len(s) /\ Char(s, i - 1) = "'" /\ Char(s, i + 1) = "'")

\* C22: isWeakHeader finds a Content-Security-Policy value weak if and only
\* if, ignoring case, it contains unsafe-inline, or unsafe-eval, or a wildcard
\* that is not quoted, wherever else a quoted '*' may stand in the value.
C22_CspWeakIff ==
    fpc = "out" /\ input \in WeakInputs =>
        LET lowerValue == ToLower(input.value)
        IN  output <=> \/ Contains(lowerValue, "unsafe-inline")
                       \/ Contains(lowerValue, "unsafe-eval")
                       \/ HasUnquotedWildcard(lowerValue)

\* C23: the port-probe unit gets half of the global timeout as sub-timeout;
\* a probe that outlasts it is killed (so a running probe always has its kill
\* timer pending, and the kill ends the probe and nothing else); the unit then
\* records an error, leaves NmapResults nil and counts itself; so with a
\* positive timeout the unit has finished when the global deadline expires.
C23_ProbeKilledBeforeDeadline ==
    nmap.Timeout > 0 =>
        /\ nmap.proc # "none" => 2 * NmapTimeout \in {nmap.Timeout, nmap.Timeout - 1}
        /\ nmap.proc = "running" => nmap.kill = "armed"
        /\ nmap.kill # "panicked"
        /\ nmap.proc = "killed" /\ HasWritten("Nmap") =>
               ret["Nmap"] = "err" /\ result.NmapResults = NULL
        /\ nmap.proc = "killed" /\ upc["Nmap"] = "fin" => completedScans >= 1
        /\ ctxDone => upc["Nmap"] \in {"idle", "fin"}

\* The requests of a run other than the baseline request.
PayloadRequests(log) ==
    {k \in DOMAIN log : log[k].op = "GET" /\ Deref(log[k].req).kind # "baseline"}

\* The run cannot start: the URL does not parse, or ScanSQLi gets no baseline.
CannotStart(in) ==
    \/ ~in.parsedURL.parseOK
    \/ in.fn = "sqli" /\ Respond(in.server, BaselineRequest).err

\* C24: in ScanSQLi and ScanXSS a failed request for a parameter and a payload
\* gives no finding and is followed by the request for the next payload of
\* the parameter, and every parameter is tested whatever failed before it; the
\* analyzer returns an error exactly when the URL does not parse or (ScanSQLi)
\* the baseline request fails, and then returns nil findings and has sent no
\* payload request.
C24_FailedRequestSkipped ==
    fpc = "out" /\ input \in InjectInputs =>
        /\ output.err # NULL <=> CannotStart(input)
        /\ output.err # NULL => output.vulns = NULL /\ PayloadRequests(output.log) = {}
        /\ output.err = NULL =>
              /\ output.vulns # NULL
              /\ \A p \in TestedParams(input) :
                    LET requested == RequestedFor(output.log, p)
                        payloads  == PayloadList(input.fn)
                        found     == FindingsAt(Deref(output.vulns), "Parameter: " \o p)
                    IN  /\ Len(requested) >= 1
                        /\ \A j \in DOMAIN requested :
                              Respond(input.server, ParamRequest(p, requested[j])).err =>
                                  /\ requested[j] = payloads[j]
                                  /\ \A i \in DOMAIN found : found[i].Payload # requested[j]
                                  /\ j < Len(payloads) =>
                                         Len(requested) > j /\ requested[j + 1] = payloads[j + 1]

\* ScanSQLi on http://h/item?id=1&q=x: every request for q fails, and for id
\* the target drops the requests whose payload has " OR " in it and writes
\* the others into the page.  All ten payloads are requested for q with no
\* finding, and id gets its finding from a payload requested after the
\* dropped ones.
C24_Witness ==
    /\ fpc = "out"
    /\ input \in InjectInputs
    /\ input.fn = "sqli"
    /\ DOMAIN input.parsedURL.Query = {"id", "q"}
    /\ input.server.handler["id"] = "wafreflect"
    /\ input.server.handler["q"] = "down"
    /\ output.err = NULL
    /\ Len(RequestedFor(output.log, "q")) = 10
    /\ FindingsAt(Deref(output.vulns), "Parameter: q") = <<>>
    /\ Len(FindingsAt(Deref(output.vulns), "Parameter: id")) = 1
    /\ \E j \in DOMAIN RequestedFor(output.log, "id") :
          /\ j < Len(RequestedFor(output.log, "id"))
          /\ Respond(input.server, ParamRequest("id", RequestedFor(output.log, "id")[j])).err

\* The units that have incremented completedScans.
Counted == {u \in Units : upc[u] \in {"callback", "fin", "panic"}}

\* C25: once the launches are over totalScans is the number of launched
\* units; completedScans is the number of units that have passed their
\* increment, each once, and never exceeds totalScans; the division by
\* totalScans never fails and every percentage a unit computes lies in
\* 1..100; when every launched unit has finished the percentage is 100.
C25_ProgressCounters ==
    /\ ~Launching /\ ~Crashed => totalScans = Cardinality(Launched)
    /\ completedScans = Cardinality(Counted)
    /\ completedScans <= totalScans
    /\ ~DivisionFailed
    /\ \A u \in Units : upc[u] = "callback" => pct[u] \in 1..100
    /\ (~Launching /\ Launched # {} /\ \A u \in Launched : upc[u] = "fin")
           => Percent(completedScans, totalScans) = 100

\* The percentages passed to UpdateProgress so far: those computed
\* (html.go:766, one for each value completedScans has taken) less those
\* whose worker has not made its call yet.
Delivered ==
    {Percent(k, totalScans) : k \in 1..completedScans}
        \ {pct[u] : u \in {v \in Units : upc[v] = "callback"}}

\* C26: the percentages arrive at UpdateProgress in non-decreasing order: no
\* worker passes a percentage smaller than one that was passed before.
C26_PercentagesInOrder ==
    [][\A u \in Units :
           (upc[u] = "callback" /\ upc'[u] = "fin") =>
               \A p \in Delivered : p <= pct[u]]_vars

\* A step in which worker u invokes a ProgressReporter callback:
\* UpdateStatus (html.go:775 and the like) or UpdateProgress (html.go:768).
CallsBack(u) ==
    \/ upc[u] = "start" /\ upc'[u] = "scan"
    \/ upc[u] = "callback" /\ upc'[u] = "fin"

\* C27 as stated: once the final UpdateProgress("All scans complete", 100)
\* has been issued (html.go:918), no worker invokes UpdateStatus or
\* UpdateProgress, whether the select took done or ctx.Done().
C27_FinalCallbackIsLast ==
    [][opc = "returned" => \A u \in Units : ~CallsBack(u)]_vars

\* C27, amended: after the done case every launched worker has finished
\* before the final call, so the final call is the last callback; after the
\* ctx.Done() case a worker that has not finished is not stopped, and its
\* pending UpdateStatus or UpdateProgress call can still be made after the
\* final call.
C27_FinalCallbackIsLastWhenDone ==
    /\ (opc = "returned" /\ branch = "done") =>
           \A u \in Units : upc[u] \in {"idle", "fin"}
    /\ opc = "returned" =>
           \A u \in Units :
               /\ upc[u] = "start" => ENABLED UpdateStatus(u)
               /\ upc[u] = "callback" => ENABLED UpdateProgress(u)

\* RunSecurityScan has returned after a timeout, one worker has still to
\* announce itself and another has still to report its percentage.
C27_Witness ==
    /\ opc = "returned"
    /\ branch = "timeout"
    /\ \E u, v \in Units : upc[u] = "start" /\ upc[v] = "callback"

\* C28: a worker about to invoke UpdateStatus or UpdateProgress does not hold
\* the mutex, and a worker that holds the mutex is inside one of its critical
\* sections, can always take its next step, and releases the mutex with the
\* last step of the section (unless another goroutine ends the process); so
\* no worker waits for the mutex for ever.
C28_MutexAlwaysReleased ==
    \A u \in Units :
        /\ upc[u] \in {"start", "callback"} => mu # u
        /\ mu = u => /\ InSection(u)
                     /\ ENABLED Worker(u) \/ EndedByOther(u)
                     /\ upc[u] \in {"cs1b", "cs2"} =>
                            ENABLED (Worker(u) /\ mu' = "free") \/ EndedByOther(u)

\* What Errors and NmapResults can hold when CalculateRiskLevel is called.
ErrorLists == {<<>>, <<TimeoutErr>>, <<TimeoutErr, TimeoutErr>>}
NmapOutputs == {NULL, Ptr(VulnerableTarget.Nmap)}

\* r with other Errors and NmapResults.
WithErrorsAndNmap(r, errs, nm) == [r EXCEPT !.Errors = errs, !.NmapResults = nm]

\* Nothing in the four fields CalculateRiskLevel reads.
NoResults(r) ==
    /\ Elems(r.SQLiResults) = <<>>
    /\ Elems(r.XSSResults) = <<>>
    /\ r.TLSResults = NULL
    /\ r.HeaderResults = NULL

\* C29: CalculateRiskLevel depends only on SQLiResults, XSSResults,
\* TLSResults and HeaderResults: a ScanResult that differs from the input
\* only in Errors or NmapResults gets the RiskLevel of the input, and a
\* ScanResult with nothing in the four fields gets LOW.
C29_RiskIgnoresErrorsAndNmap ==
    fpc = "out" /\ input \in RiskInputs =>
        /\ \A errs \in ErrorLists, nm \in NmapOutputs :
               CalculateRiskLevel(WithErrorsAndNmap(input, errs, nm)) = output
        /\ NoResults(input) =>
               \A errs \in ErrorLists, nm \in NmapOutputs :
                   CalculateRiskLevel(WithErrorsAndNmap(input, errs, nm)) = "LOW"

\* Nothing in the four fields: LOW, and LOW too with two timeout errors and
\* a port-probe output added.
C29_Witness ==
    /\ fpc = "out"
    /\ input \in RiskInputs
    /\ NoResults(input)
    /\ input.SQLiResults = NULL
    /\ output = "LOW"
    /\ CalculateRiskLevel(WithErrorsAndNmap(input, <<TimeoutErr, TimeoutErr>>,
                                            Ptr(VulnerableTarget.Nmap))) = "LOW"

\* C30: for a target that is not https ScanTLS returns at once, whatever a
\* dial would give, a result with IsSecure false and Score 0 and a nil error;
\* so the TLS worker, when launched, can only write that result, and when its
\* write was complete at finalization the RiskLevel is HIGH or CRITICAL,
\* whatever else the ScanResult holds.
C30_PlainHttpIsHighRisk ==
    target.Protocol # "https" =>
        /\ \A dialOK \in BOOLEAN :
               LET out == ScanTLS(target, [dialOK |-> dialOK])
               IN  /\ out.err = NULL
                   /\ out.scan = Ptr(Out("TLS"))
                   /\ ~Deref(out.scan).IsSecure
                   /\ Deref(out.scan).Score = 0
        /\ Returns("TLS") = {"ok"}
        /\ (nRiskLevel = 1 /\ "TLS" \in hist.written) =>
               result.RiskLevel \in {"HIGH", "CRITICAL"}

\* A returned scan of the http target whose only result is that of the TLS
\* analyzer: HIGH.
C30_Witness ==
    /\ opc = "returned"
    /\ target.Protocol = "http"
    /\ "TLS" \in hist.written
    /\ result.TLSResults = Ptr(Out("TLS"))
    /\ result.SQLiResults = NULL
    /\ result.XSSResults = NULL
    /\ result.HeaderResults = NULL
    /\ result.NmapResults = NULL
    /\ result.RiskLevel = "HIGH"

=============================================================================
